---- MODULE Spec2Model ----
(***************************************************************************)
(* Price-tracking engine of amazon-price-tracker: the in-memory Product    *)
(* Store with its snapshot persistence (server/storage.ts), the tracking   *)
(* coordinator (server/services/priceTracker.ts) and the HTTP handlers     *)
(* that share the store with it (server/routes.ts).                        *)
(*                                                                         *)
(* The program runs on one JavaScript event loop.  The code between two    *)
(* awaits that wait for I/O or for a timer runs without interleaving, so   *)
(* every action below is one such stretch: it starts at the event that     *)
(* wakes the code (a request, a timer, the end of a fetch or of a file     *)
(* write) and runs to the next fetch, file write or timer.  Awaits on the  *)
(* store's own async methods resolve in microtasks and end no stretch.     *)
(***************************************************************************)
EXTENDS Integers, Sequences, FiniteSets, TLC

(***************************************************************************)
(* Bounds of the model.                                                    *)
(***************************************************************************)
\* Each specification below bounds the checkPrices calls (periodic timer,
\* initial kick, POST /check-prices), the POST /products requests that pass
\* the duplicate check, and the other HTTP mutations (DELETE, PATCH read).

\* Spec: the tracker and the handlers, snapshot writes disabled
MaxTriggers == 2

MaxAdds == 2

MaxApiCalls == 1

\* SpecIds: creations, deletions and checks
IdsMaxTriggers == 2
IdsMaxAdds == 2
IdsMaxApiCalls == 1

\* SpecTrack: the tracker on a loaded store
TrackMaxTriggers == 2

\* SpecStore: calls of the store's methods
StoreMaxCalls == 3

\* SpecLoop: ticks over two products, with adds and deletes
LoopMaxTriggers == 1
LoopMaxAdds == 2
LoopMaxApiCalls == 1

\* SpecSweep: ticks over two loaded products, with deletes
SweepMaxTriggers == 1
SweepMaxApiCalls == 1

\* SpecPrice: one listing added and checked, with file-system writes
PriceMaxTriggers == 1
PriceMaxAdds == 1

\* SpecStop: the timers of initialize() and stop()
StopMaxTriggers == 2

\* SpecRestart: one listing added and checked, with restarts between checks
RestartMaxTriggers == 1
RestartMaxAdds == 1
MaxRestarts == 1

\* SpecAdd: add-product requests with the bodies a client can send
AddMaxTriggers == 1
AddMaxAdds == 1
AddMaxApiCalls == 1

\* SpecRead: notifications created, posted and acknowledged
ReadMaxTriggers == 1
ReadMaxAdds == 1
ReadMaxApiCalls == 2

\* SpecHist: enough triggers for a history to pass HISTORY_LIMIT
HistMaxTriggers == 1
HistMaxAdds == 1

\* SpecFs: the tracker and the handlers, with snapshot writes
FsMaxTriggers == 2

FsMaxAdds == 1

FsMaxApiCalls == 1

(***************************************************************************)
(* Program constants.                                                      *)
(***************************************************************************)
\* storage.ts: [pricePoint, ...priceHistory].slice(0, 30)
HISTORY_LIMIT == 30

(***************************************************************************)
(* Input domains.                                                          *)
(***************************************************************************)
\* A configuration names the bounds and the inputs a specification draws:
\* urls of add-product requests, current prices and list prices (MRP) a
\* fetched page can show, and the notifyOnDrop and dropPercentage values of
\* the bodies of add-product requests.
Config(maxTriggers, maxAdds, maxApiCalls, urls, prices, listPrices, notify, drops) ==
    [maxTriggers |-> maxTriggers, maxAdds |-> maxAdds, maxApiCalls |-> maxApiCalls,
     urls |-> urls, prices |-> prices, listPrices |-> listPrices,
     notify |-> notify, drops |-> drops]

(***************************************************************************)
(* Variables.                                                              *)
(***************************************************************************)
VARIABLES
    products,               \* MemStorage.products: id -> Product
    notifications,          \* MemStorage.notifications: id -> Notification
    productIdCounter,       \* MemStorage.productIdCounter
    notificationIdCounter,  \* MemStorage.notificationIdCounter
    isVercel,               \* process.env.VERCEL === '1'
    disk,                   \* content of data.json
    writes,                 \* fs.promises.writeFile calls in flight, in start order
    checkInterval,          \* PriceTracker.checkInterval is set
    kickPending,            \* the setTimeout of initialize() has not fired yet
    isChecking,             \* PriceTracker.isChecking
    runs,                   \* executions of checkPrices inside the product loop
    adds,                   \* POST /products handlers in flight
    clock,                  \* logical time: number of checkPrices calls so far
    addCount,               \* POST /products requests accepted so far
    apiCount,               \* DELETE / PATCH requests served so far
    log                     \* history: ticks started and skipped, ids handed out

vars == <<products, notifications, productIdCounter, notificationIdCounter,
          isVercel, disk, writes, checkInterval, kickPending, isChecking, runs, adds,
          clock, addCount, apiCount, log>>

storeVars == <<products, notifications, productIdCounter, notificationIdCounter>>

envVars == <<isVercel, checkInterval, kickPending>>

(***************************************************************************)
(* Helpers on functions and sequences.                                     *)
(***************************************************************************)
\* Map.set(k, v)
MapSet(m, k, v) == [x \in DOMAIN m \cup {k} |-> IF x = k THEN v ELSE m[x]]

\* Map.delete(k)
MapDelete(m, k) == [x \in DOMAIN m \ {k} |-> m[x]]

\* Array.from(map.values()): insertion order, which is ascending id because
\* ids are handed out in ascending order and set() on a present key keeps
\* its place
RECURSIVE MapValues(_)
MapValues(m) ==
    IF DOMAIN m = {} THEN <<>>
    ELSE LET k == CHOOSE x \in DOMAIN m : \A y \in DOMAIN m : x <= y
         IN  <<m[k]>> \o MapValues(MapDelete(m, k))

\* array.slice(0, n)
Slice0(s, n) == SubSeq(s, 1, IF Len(s) < n THEN Len(s) ELSE n)

RemoveAt(s, i) == SubSeq(s, 1, i - 1) \o SubSeq(s, i + 1, Len(s))

Max(a, b) == IF a >= b THEN a ELSE b

(***************************************************************************)
(* client/src/lib/utils.ts                                                 *)
(***************************************************************************)
\* Math.round(x) is floor(x + 1/2); x = (o - c) * 100 / o with o > 0.
\* \div is floor division for a positive divisor.
calculateDiscountPercentage(currentPrice, originalPrice) ==
    IF originalPrice <= 0 THEN 0
    ELSE (200 * (originalPrice - currentPrice) + originalPrice) \div (2 * originalPrice)

(***************************************************************************)
(* Texts and numbers of JavaScript.  A text is a sequence of characters.   *)
(***************************************************************************)
\* parseInt of a text that does not start with a number, and every number
\* computed from it; no price and no percentage of the model has this value
NaN == -999

\* null in data.json; no number of the model has this value
JsonNull == -998

\* ToNumber of an operand of a comparison: null is +0
ToNumber(x) == IF x = JsonNull THEN 0 ELSE x

\* a >= b and a < b: false when either is NaN
GreaterOrEqual(a, b) == a # NaN /\ b # NaN /\ ToNumber(a) >= ToNumber(b)

Less(a, b) == a # NaN /\ b # NaN /\ ToNumber(a) < ToNumber(b)

HexDigits == <<"0", "1", "2", "3", "4", "5", "6", "7", "8", "9",
               "a", "b", "c", "d", "e", "f">>

\* the characters that are digits in a radix
DigitsOf(radix) == {HexDigits[k] : k \in 1..radix}

DigitValue(c) == (CHOOSE k \in 1..16 : HexDigits[k] = c) - 1

\* String.prototype.trim, and the whitespace parseInt skips
IsSpace(c) == c \in {" ", "\n", "\t"}

RECURSIVE TrimStart(_)
TrimStart(text) ==
    IF text # <<>> /\ IsSpace(Head(text)) THEN TrimStart(Tail(text)) ELSE text

RECURSIVE TrimEnd(_)
TrimEnd(text) ==
    IF text # <<>> /\ IsSpace(text[Len(text)])
    THEN TrimEnd(SubSeq(text, 1, Len(text) - 1)) ELSE text

Trim(text) == TrimEnd(TrimStart(text))

\* the number written by the longest prefix of digits of a text
RECURSIVE PrefixValue(_, _, _, _)
PrefixValue(text, radix, value, seen) ==
    IF text # <<>> /\ Head(text) \in DigitsOf(radix)
    THEN PrefixValue(Tail(text), radix, value * radix + DigitValue(Head(text)), TRUE)
    ELSE [seen |-> seen, value |-> value]

\* parseInt(text) with no radix: leading whitespace, a sign, 0x for base 16,
\* then the digits up to the first other character; NaN without a digit
ParseInt(text) ==
    LET t1 == TrimStart(text)
        negative == t1 # <<>> /\ Head(t1) = "-"
        t2 == IF t1 # <<>> /\ Head(t1) \in {"+", "-"} THEN Tail(t1) ELSE t1
        hex == Len(t2) >= 2 /\ t2[1] = "0" /\ t2[2] \in {"x", "X"}
        t3 == IF hex THEN SubSeq(t2, 3, Len(t2)) ELSE t2
        r == PrefixValue(t3, IF hex THEN 16 ELSE 10, 0, FALSE)
    IN IF ~r.seen THEN NaN ELSE IF negative THEN 0 - r.value ELSE r.value

\* a JSON value of a request body: a string or a number
BodyString(text) == [type |-> "string", text |-> text]

BodyNumber(n) == [type |-> "number", value |-> n]

(***************************************************************************)
(* AmazonScraper.scrapeProduct seen from its callers: null, or a snapshot  *)
(* whose originalPrice is the page's list price, or the current price when *)
(* the page shows none.                                                    *)
(***************************************************************************)
NULL == [ok |-> FALSE, currentPrice |-> 0, originalPrice |-> 0]

\* a page that shows no list price: parseInt("") is NaN
NoListPrice == -1

\* let originalPrice = parseInt(...); if (isNaN(originalPrice)) originalPrice = currentPrice
\* The title and the image are those the listing shows at the fetch.
Scraped(price, listPrice) ==
    [ok |-> TRUE, title |-> "title", currentPrice |-> price,
     originalPrice |-> IF listPrice = NoListPrice THEN price ELSE listPrice,
     imageUrl |-> "image"]

\* the same snapshot of a page whose title and image have been changed
Relisted(scraped) ==
    IF scraped.ok THEN [scraped EXCEPT !.title = "title2", !.imageUrl = "image2"]
    ELSE scraped

\* what scrapeProduct can return: null (any failure), or the snapshot of a page
ScrapeResults(prices, listPrices) ==
    {NULL} \cup {Scraped(p, o) : p \in prices, o \in listPrices}

(***************************************************************************)
(* AmazonScraper.scrapeProduct from the inside (services/amazonScraper.ts). *)
(* A text is the sequence of its characters.  The network is an input: the *)
(* answer to the short-link request and the answer to the page request.    *)
(* Of the page, the model keeps the text each selector yields.             *)
(***************************************************************************)
\* String.prototype.includes
Includes(text, part) ==
    \E i \in 1..(Len(text) - Len(part) + 1) : SubSeq(text, i, i + Len(part) - 1) = part

\* "amzn.in" and "amazon.in"
ShortDomain == <<"a", "m", "z", "n", ".", "i", "n">>

MarketplaceDomain == <<"a", "m", "a", "z", "o", "n", ".", "i", "n">>

\* the lists titleSelectors, priceSelectors and mrpSelectors
TitleSelectorCount == 5

PriceSelectorCount == 7

MrpSelectorCount == 7

\* an async function ends by returning a value or by throwing; `requests`
\* are the URLs it has sent a GET to
Completed(value, requests) == [thrown |-> FALSE, value |-> value, requests |-> requests]

Thrown(requests) == [thrown |-> TRUE, value |-> <<>>, requests |-> requests]

\* resolveShortUrl: one GET without redirect following.  answer.kind is
\* "response" (status 2xx or 3xx), "errorResponse" (axios rejects with a
\* response) or "error" (no response); answer.location is the Location
\* header, <<>> when there is none.  The throw in the try block is caught
\* by the function's own catch, which throws again.
resolveShortUrl(shortUrl, answer) ==
    IF answer.kind \in {"response", "errorResponse"} /\ answer.location # <<>>
    THEN Completed(answer.location, <<shortUrl>>)
    ELSE Thrown(<<shortUrl>>)

\* for (const selector of ...) { const found = $(selector).text().trim();
\* if (found) { ... break; } }: the trimmed text of the first selector
\* whose trimmed text is not empty, "" when there is none
FirstFound(texts) ==
    LET found == {i \in 1..Len(texts) : Trim(texts[i]) # <<>>}
    IN  IF found = {} THEN <<>>
        ELSE Trim(texts[CHOOSE i \in found : \A j \in found : i <= j])

\* text.split(':')[0]
RECURSIVE BeforeColon(_)
BeforeColon(text) ==
    IF text = <<>> \/ Head(text) = ":" THEN <<>>
    ELSE <<Head(text)>> \o BeforeColon(Tail(text))

\* a || b for two strings
OrElse(a, b) == IF a # <<>> THEN a ELSE b

\* the title: the selectors, then meta title, og:title and <title>
ExtractTitle(page) ==
    OrElse(FirstFound(page.titles),
           OrElse(page.metaTitle,
                  OrElse(page.ogTitle, Trim(BeforeColon(page.docTitle)))))

\* the group (\d+[\d,.]*) of the script patterns, matched against the text
\* that follows `"priceAmount": "` or `"listPrice": "`; "" for no match
RECURSIVE AmountChars(_)
AmountChars(text) ==
    IF text # <<>> /\ Head(text) \in DigitsOf(10) \cup {",", "."}
    THEN <<Head(text)>> \o AmountChars(Tail(text))
    ELSE <<>>

ScriptAmount(text) ==
    IF text # <<>> /\ Head(text) \in DigitsOf(10) THEN AmountChars(text) ELSE <<>>

\* text.replace(/[^\d]/g, "") as the identity
KeepAll(text) == text

\* text.replace(/[^\d]/g, "")
StripNonDigits(text) ==
    LET IsDigit(c) == c \in DigitsOf(10)
    IN  SelectSeq(text, IsDigit)

\* a price: the first selector that yields text, else the script pattern;
\* then parseInt of the digits
ExtractPrice(texts, script) ==
    ParseInt(StripNonDigits(OrElse(FirstFound(texts), ScriptAmount(script))))

\* the image fallback
Placeholder == <<"p", "l", "a", "c", "e", "h", "o", "l", "d">>

\* the snapshot scrapeProduct returns
Snapshot(title, currentPrice, originalPrice, imageUrl) ==
    [ok |-> TRUE, title |-> title, currentPrice |-> currentPrice,
     originalPrice |-> originalPrice, imageUrl |-> imageUrl]

\* the parse of a fetched page: from cheerio.load to the return statement
ParsePage(page, requests) ==
    LET title == ExtractTitle(page)
        currentPrice == ExtractPrice(page.prices, page.priceAmount)
        listPrice == ExtractPrice(page.mrps, page.listPrice)
    IN  IF title = <<>> THEN Thrown(requests)
        ELSE IF currentPrice = NaN THEN Thrown(requests)
        ELSE Completed(Snapshot(title, currentPrice,
                                IF listPrice = NaN THEN currentPrice ELSE listPrice,
                                OrElse(page.image, Placeholder)),
                       requests)

\* the try block of scrapeProduct
ScrapeBody(url, net) ==
    LET resolved == IF Includes(url, ShortDomain)
                    THEN resolveShortUrl(url, net.redirect)
                    ELSE Completed(url, <<>>)
        fullUrl == resolved.value
    IN  IF resolved.thrown THEN resolved
        ELSE IF ~Includes(fullUrl, MarketplaceDomain) THEN Thrown(resolved.requests)
        ELSE IF net.page.kind # "page" THEN Thrown(Append(resolved.requests, fullUrl))
        ELSE ParsePage(net.page, Append(resolved.requests, fullUrl))

\* a catch block that throws again
CaughtRethrown(body) == [outcome |-> "thrown", value |-> NULL, requests |-> body.requests]

\* catch (error) { console.error(...); return null; }
Caught(body) == [outcome |-> "returned", value |-> NULL, requests |-> body.requests]

\* scrapeProduct(url): how the call ends, its value and the requests it sent
scrapeProduct(url, net) ==
    LET body == ScrapeBody(url, net)
    IN  IF body.thrown THEN Caught(body)
        ELSE [outcome |-> "returned", value |-> body.value, requests |-> body.requests]

\* a call amazonScraper.scrapeProduct(url) that has not ended, with the
\* answers the network is going to give
ScrapeRequest(url, net) == [url |-> url, net |-> net, result |-> <<>>]

\* the call followed in log.scrape ends
ScrapeProduct ==
    /\ log.scrape # <<>>
    /\ log.scrape[1].result = <<>>
    /\ log' = [log EXCEPT !.scrape[1].result =
                            <<scrapeProduct(log.scrape[1].url, log.scrape[1].net)>>]
    /\ UNCHANGED <<products, notifications, productIdCounter, notificationIdCounter,
                   isVercel, checkInterval, kickPending, disk, writes, isChecking,
                   runs, adds, clock, addCount, apiCount>>

(***************************************************************************)
(* MemStorage (server/storage.ts).  The four fields of the store are also  *)
(* the StorageData that saveData serializes; the operators below take and  *)
(* return them as one record.                                              *)
(***************************************************************************)
Store ==
    [products |-> products, notifications |-> notifications,
     productIdCounter |-> productIdCounter,
     notificationIdCounter |-> notificationIdCounter]

SetStore(S) ==
    /\ products' = S.products
    /\ notifications' = S.notifications
    /\ productIdCounter' = S.productIdCounter
    /\ notificationIdCounter' = S.notificationIdCounter

\* the constructor
EmptyMap == [x \in {} |-> 0]

EmptyStore ==
    [products |-> EmptyMap, notifications |-> EmptyMap,
     productIdCounter |-> 1, notificationIdCounter |-> 1]

\* JSON.stringify of a number: NaN has no JSON form and is written as null
JsonNumber(x) == IF x = NaN THEN JsonNull ELSE x

\* JSON.stringify of a Date: Date.prototype.toJSON, the ISO string of its
\* time value
IsoString(t) == <<"iso", t>>

\* new Date(isoString)
NewDate(text) == text[2]

\* JSON.stringify(data, null, 2) of the StorageData.  The dates of price
\* points are ISO strings in memory already and are written as they are.
Serialize(S) ==
    [S EXCEPT
        !.products = [id \in DOMAIN @ |->
            [@[id] EXCEPT !.dropPercentage = JsonNumber(@),
                          !.lastChecked = IsoString(@),
                          !.createdAt = IsoString(@)]],
        !.notifications = [id \in DOMAIN @ |->
            [@[id] EXCEPT !.createdAt = IsoString(@)]]]

\* JSON.parse of data.json and the restore loops of loadData: lastChecked
\* and createdAt go through new Date, every other field is taken as parsed
Restore(data) ==
    [data EXCEPT
        !.products = [id \in DOMAIN @ |->
            [@[id] EXCEPT !.lastChecked = NewDate(@),
                          !.createdAt = NewDate(@)]],
        !.notifications = [id \in DOMAIN @ |->
            [@[id] EXCEPT !.createdAt = NewDate(@)]]]

\* saveData outside the serverless environment: the snapshot is serialized
\* at the call and the write is in flight until WriteDone.  Writes that are
\* in flight together overlap.
saveData(ws, owner, S) ==
    [i \in 1..Len(ws) |-> [ws[i] EXCEPT !.overlapped = TRUE]]
    \o <<[owner |-> owner, data |-> Serialize(S), overlapped |-> (ws # <<>>)]>>

getProductByUrl(S, url) == {id \in DOMAIN S.products : S.products[id].url = url}

\* an id taken from the number of stored products
NextProductIdBySize(S) == Cardinality(DOMAIN S.products) + 1

\* const id = this.productIdCounter++
NextProductId(S) == S.productIdCounter

createProduct(S, data, now) ==
    LET id == NextProductId(S)
    IN  [S EXCEPT !.productIdCounter = @ + 1,
                  !.products = MapSet(@, id,
                      [id |-> id, url |-> data.url,
                       title |-> data.title, imageUrl |-> data.imageUrl,
                       currentPrice |-> data.currentPrice,
                       originalPrice |-> data.originalPrice,
                       notifyOnDrop |-> data.notifyOnDrop,
                       dropPercentage |-> data.dropPercentage,
                       priceHistory |-> data.priceHistory,
                       lastChecked |-> now, createdAt |-> now])]

deleteProduct(S, id) == [S EXCEPT !.products = MapDelete(@, id)]

\* [pricePoint, ...product.priceHistory].slice(0, 31)
PrependPointUncut(history, pricePoint) == Slice0(<<pricePoint>> \o history, HISTORY_LIMIT + 1)

\* [pricePoint, ...product.priceHistory].slice(0, 30)
PrependPoint(history, pricePoint) == Slice0(<<pricePoint>> \o history, HISTORY_LIMIT)

\* an addPricePoint that leaves currentPrice alone
addPricePointHistoryOnly(S, id, pricePoint, now) ==
    [S EXCEPT !.products[id] =
        [@ EXCEPT !.priceHistory = PrependPoint(@, pricePoint),
                  !.lastChecked = now]]

\* addPricePoint for a product in the store: updateProduct(id, {priceHistory,
\* currentPrice}), which sets lastChecked to new Date()
addPricePoint(S, id, pricePoint, now) ==
    [S EXCEPT !.products[id] =
        [@ EXCEPT !.priceHistory = PrependPoint(@, pricePoint),
                  !.currentPrice = pricePoint.price,
                  !.lastChecked = now]]

\* updateProduct for a product in the store, with the coordinator's fields
updateProduct(S, id, title, currentPrice, originalPrice, imageUrl, lastChecked) ==
    [S EXCEPT !.products[id] =
        [@ EXCEPT !.title = title,
                  !.currentPrice = currentPrice,
                  !.originalPrice = originalPrice,
                  !.imageUrl = imageUrl,
                  !.lastChecked = lastChecked]]

\* const id = this.notificationIdCounter++
NextNotificationId(S) == S.notificationIdCounter

\* read: notification.read || false
createNotification(S, n, now) ==
    LET id == NextNotificationId(S)
    IN  [S EXCEPT !.notificationIdCounter = @ + 1,
                  !.notifications = MapSet(@, id,
                      [id |-> id, productId |-> n.productId,
                       productName |-> n.productName,
                       productUrl |-> n.productUrl,
                       oldPrice |-> n.oldPrice, newPrice |-> n.newPrice,
                       percentageDropped |-> n.percentageDropped,
                       read |-> n.read, createdAt |-> now])]

\* a markNotificationAsRead that flips the flag
markNotificationAsReadFlipped(S, id) == [S EXCEPT !.notifications[id].read = ~@]

\* this.notifications.set(id, {...notification, read: true})
markNotificationAsRead(S, id) == [S EXCEPT !.notifications[id].read = TRUE]

\* loadData on the constructed store: nothing in the serverless environment
\* or without data.json; a file that does not parse is logged and leaves the
\* store as it was; otherwise products, notifications and counters are
\* restored from the file
loadData(S, vercel, file) ==
    IF vercel \/ file.state # "ok" THEN S ELSE Restore(file.data)

(***************************************************************************)
(* PriceTracker (server/services/priceTracker.ts)                          *)
(***************************************************************************)
\* a checkPrices without the guard
SkipsTriggerNever(flag) == FALSE

\* if (this.isChecking) { log(...); return; }
SkipsTrigger(flag) == flag

\* the flag cleared at the end of the try block instead of in finally:
\* an early return leaves it as it is
FlagOnExitKept(flag) == flag

\* finally { this.isChecking = false; }
FlagOnExit(flag) == FALSE

\* the threshold test with <= for the previous price
ShouldNotifyAtThreshold(product, previousPrice, newPrice, originalPrice) ==
    /\ product.notifyOnDrop
    /\ previousPrice > newPrice
    /\ GreaterOrEqual(calculateDiscountPercentage(newPrice, originalPrice),
                      product.dropPercentage)
    /\ GreaterOrEqual(product.dropPercentage,
                      calculateDiscountPercentage(previousPrice, originalPrice))

\* the threshold test without the previous price's discount
ShouldNotifyBeyond(product, previousPrice, newPrice, originalPrice) ==
    /\ product.notifyOnDrop
    /\ previousPrice > newPrice
    /\ GreaterOrEqual(calculateDiscountPercentage(newPrice, originalPrice),
                      product.dropPercentage)

\* the threshold-crossing test of one check
ShouldNotify(product, previousPrice, newPrice, originalPrice) ==
    /\ product.notifyOnDrop
    /\ previousPrice > newPrice
    /\ GreaterOrEqual(calculateDiscountPercentage(newPrice, originalPrice),
                      product.dropPercentage)
    /\ Less(calculateDiscountPercentage(previousPrice, originalPrice),
            product.dropPercentage)

\* a notification built as already read
DropNotificationRead(product, previousPrice, newPrice, originalPrice) ==
    [productId |-> product.id, productName |-> product.title,
     productUrl |-> product.url,
     oldPrice |-> previousPrice, newPrice |-> newPrice,
     percentageDropped |-> calculateDiscountPercentage(newPrice, originalPrice),
     read |-> TRUE]

\* the InsertNotification the coordinator builds
DropNotification(product, previousPrice, newPrice, originalPrice) ==
    [productId |-> product.id, productName |-> product.title,
     productUrl |-> product.url,
     oldPrice |-> previousPrice, newPrice |-> newPrice,
     percentageDropped |-> calculateDiscountPercentage(newPrice, originalPrice),
     read |-> FALSE]

\* const originalPrice = Math.max(scrapedData.originalPrice, product.originalPrice)
EffectiveOriginal(scraped, product) == Max(scraped.originalPrice, product.originalPrice)

\* the product the run is at: an element of the array read at the tick's start
Current(run) == run.products[run.i]

\* One store call of the loop body.  The result names the store after it,
\* the call the run then awaits ("sleep": none, the loop's delay is next),
\* whether that call saved, and the notification ids created.
StepResult(S, pc, saved, notified) ==
    [S |-> S, pc |-> pc, saved |-> saved, notified |-> notified, errors |-> 0]

\* a catch block that throws again: the error leaves checkPrices
CaughtInLoopRethrown(S) == [StepResult(S, "thrown", FALSE, <<>>) EXCEPT !.errors = 1]

\* catch (error) { log(...) } of the loop body: the error of a store call
\* is logged and the loop goes on with its delay
CaughtInLoop(S) == [StepResult(S, "sleep", FALSE, <<>>) EXCEPT !.errors = 1]

\* await storage.addPricePoint(product.id, pricePoint); it throws for a
\* product that is no longer in the store, which the loop's catch logs
CallAddPricePoint(S, run, now) ==
    LET product == Current(run)
    IN  IF product.id \notin DOMAIN S.products
        THEN CaughtInLoop(S)
        ELSE StepResult(addPricePoint(S, product.id,
                            [date |-> run.now, price |-> run.scraped.currentPrice], now),
                        "addPricePoint", TRUE, <<>>)

\* an update that inserts the tick's copy of a record the store no longer has
CallUpdateProductUpserts(S, run) ==
    LET product == Current(run)
        present == [S EXCEPT !.products = MapSet(S.products, product.id, product)]
    IN  StepResult(updateProduct(present, product.id, run.scraped.title,
                       run.scraped.currentPrice,
                       EffectiveOriginal(run.scraped, product),
                       run.scraped.imageUrl, run.now),
                   "updateProduct", TRUE, <<>>)

\* await storage.updateProduct(product.id, {...}); throws likewise
CallUpdateProduct(S, run) ==
    LET product == Current(run)
    IN  IF product.id \notin DOMAIN S.products
        THEN CaughtInLoop(S)
        ELSE StepResult(updateProduct(S, product.id, run.scraped.title,
                            run.scraped.currentPrice,
                            EffectiveOriginal(run.scraped, product),
                            run.scraped.imageUrl, run.now),
                        "updateProduct", TRUE, <<>>)

\* the threshold check and await storage.createNotification(notification)
CallCreateNotification(S, run, now) ==
    LET product == Current(run)
        previousPrice == product.currentPrice
        newPrice == run.scraped.currentPrice
        originalPrice == EffectiveOriginal(run.scraped, product)
    IN  IF ShouldNotify(product, previousPrice, newPrice, originalPrice)
        THEN StepResult(createNotification(S,
                            DropNotification(product, previousPrice, newPrice, originalPrice),
                            now),
                        "createNotification", TRUE, <<NextNotificationId(S)>>)
        ELSE StepResult(S, "sleep", FALSE, <<>>)

\* The loop body from the store call `call` on, as far as it runs without
\* waiting: to the first snapshot write, or, where saveData returns at once
\* (serverless), to the loop's delay.
RECURSIVE LoopBody(_, _, _, _, _)
LoopBody(call, S, run, now, vercel) ==
    LET res == CASE call = "addPricePoint" -> CallAddPricePoint(S, run, now)
                 [] call = "updateProduct" -> CallUpdateProduct(S, run)
                 [] call = "createNotification" -> CallCreateNotification(S, run, now)
    IN  IF res.pc \in {"sleep", "thrown"} \/ ~vercel THEN res
        ELSE IF call = "createNotification" THEN [res EXCEPT !.pc = "sleep"]
        ELSE LoopBody(IF call = "addPricePoint" THEN "updateProduct"
                      ELSE "createNotification", res.S, run, now, vercel)

TickOwner(r) == [kind |-> "tick", id |-> r]

AddOwner(a) == [kind |-> "add", id |-> a]

ApiOwner == [kind |-> "api", id |-> 0]

\* run r goes through the loop body from `call` on; `rest` are the writes
\* still in flight
RunLoopBody(r, run, call, rest) ==
    LET res == LoopBody(call, Store, run, clock, isVercel)
        ref == LoopBody(call, log.twin, [run EXCEPT !.products = run.reference],
                        clock, isVercel)
    IN  /\ SetStore(res.S)
        /\ writes' = IF res.saved /\ ~isVercel
                     THEN saveData(rest, TickOwner(r), res.S)
                     ELSE rest
        /\ runs' = MapSet(runs, r,
                     IF res.pc = "sleep"
                     THEN [run EXCEPT !.pc = "sleep", !.scraped = NULL, !.now = 0]
                     ELSE [run EXCEPT !.pc = res.pc])
        /\ log' = [log EXCEPT !.notificationIds = @ \o res.notified,
                              !.errors = @ + res.errors,
                              !.twin = ref.S]

\* a loop that ends after the product it is at
NextIterationBreaks(r) ==
    /\ runs' = MapDelete(runs, r)
    /\ isChecking' = FlagOnExit(isChecking)

\* the for loop moves on: the next product's fetch, or the end of the loop
\* and the finally block
NextIteration(r) ==
    IF runs[r].i < Len(runs[r].products)
    THEN /\ runs' = [runs EXCEPT ![r].i = @ + 1, ![r].pc = "scrape"]
         /\ UNCHANGED isChecking
    ELSE /\ runs' = MapDelete(runs, r)
         /\ isChecking' = FlagOnExit(isChecking)

\* checkPrices from its call to the first fetch
checkPrices(cfg) ==
    /\ clock < cfg.maxTriggers
    /\ clock' = clock + 1
    /\ IF SkipsTrigger(isChecking)
       THEN /\ log' = [log EXCEPT !.skips = @ + 1]
            /\ UNCHANGED <<isChecking, runs>>
       ELSE /\ log' = [log EXCEPT !.ticks = @ + 1]
            /\ IF DOMAIN products = {}
               THEN /\ isChecking' = FlagOnExit(TRUE)
                    /\ UNCHANGED runs
               ELSE /\ isChecking' = TRUE
                    /\ runs' = MapSet(runs, clock + 1,
                                  [pc |-> "scrape", products |-> MapValues(products),
                                   reference |-> MapValues(log.twin.products),
                                   i |-> 1, scraped |-> NULL, now |-> 0])
    /\ UNCHANGED <<storeVars, isVercel, disk, writes, adds, addCount, apiCount>>

\* initialize(): setInterval and setTimeout; registerRoutes calls it once
\* before it mounts the handlers
initialize ==
    /\ ~log.initialized
    /\ checkInterval' = TRUE
    /\ kickPending' = TRUE
    /\ log' = [log EXCEPT !.initialized = TRUE]
    /\ UNCHANGED <<storeVars, isVercel, disk, writes, isChecking, runs, adds,
                   clock, addCount, apiCount>>

\* stop(): if (this.checkInterval) { clearInterval(...); this.checkInterval = null }
\* The handle of the setTimeout of initialize() is not kept, so that timer
\* stays as it is.
stop ==
    /\ checkInterval
    /\ checkInterval' = FALSE
    /\ log' = [log EXCEPT !.stopped = TRUE]
    /\ UNCHANGED <<storeVars, isVercel, kickPending, disk, writes, isChecking, runs,
                   adds, clock, addCount, apiCount>>

\* The process ends and starts again between two checks, when every
\* handler has answered and data.json holds the snapshot of the last save:
\* timers and flags are gone with the old process, the new MemStorage starts
\* empty and loadData reads data.json, and registerRoutes calls initialize()
\* again.
\* log.twin stays what it is: the store of a process that went on running.
Restart(maxRestarts) ==
    /\ log.initialized
    /\ log.restarts < maxRestarts
    /\ runs = EmptyMap /\ adds = EmptyMap /\ writes = <<>> /\ ~isChecking
    /\ disk = [state |-> "ok", data |-> Serialize(Store)]
    /\ SetStore(loadData(EmptyStore, isVercel, disk))
    /\ checkInterval' = FALSE
    /\ kickPending' = FALSE
    /\ log' = [log EXCEPT !.initialized = FALSE, !.restarts = @ + 1]
    /\ UNCHANGED <<isVercel, disk, writes, isChecking, runs, adds,
                   clock, addCount, apiCount>>

\* the setInterval callback
IntervalFires(cfg) ==
    /\ checkInterval
    /\ checkPrices(cfg)
    /\ UNCHANGED <<checkInterval, kickPending>>

\* the setTimeout callback, 30 s after startup
KickFires(cfg) ==
    /\ kickPending
    /\ kickPending' = FALSE
    /\ checkPrices(cfg)
    /\ UNCHANGED checkInterval

\* POST /check-prices
PostCheckPrices(cfg) ==
    /\ log.initialized
    /\ checkPrices(cfg)
    /\ UNCHANGED <<checkInterval, kickPending>>

\* a failure branch that records the attempt in lastChecked
OnScrapeFailureStamped(S, product, now) ==
    IF product.id \in DOMAIN S.products
    THEN [S EXCEPT !.products[product.id].lastChecked = now]
    ELSE S

\* if (!scrapedData) { log(...); continue; }: no store call
OnScrapeFailure(S, product, now) == S

\* the fetch of the current product ends: scrapeProduct returns
ScrapeDone(r, result) ==
    /\ r \in DOMAIN runs
    /\ runs[r].pc = "scrape"
    /\ IF ~result.ok
       THEN \* log and continue: the loop's delay is skipped
            /\ NextIteration(r)
            /\ SetStore(OnScrapeFailure(Store, Current(runs[r]), clock))
            /\ UNCHANGED <<writes, log>>
       ELSE /\ RunLoopBody(r, [runs[r] EXCEPT !.scraped = result, !.now = clock],
                           "addPricePoint", writes)
            /\ UNCHANGED isChecking
    /\ UNCHANGED <<envVars, disk, adds, clock, addCount, apiCount>>

\* the fetch of the current product never ends (no timeout is set on it)
ScrapeHangs(r) ==
    /\ r \in DOMAIN runs
    /\ runs[r].pc = "scrape"
    /\ runs' = [runs EXCEPT ![r].pc = "hung"]
    /\ UNCHANGED <<storeVars, envVars, disk, writes, isChecking,
                   adds, clock, addCount, apiCount, log>>

\* the 2 s delay after a product ends
SleepDone(r) ==
    /\ r \in DOMAIN runs
    /\ runs[r].pc = "sleep"
    /\ NextIteration(r)
    /\ UNCHANGED <<storeVars, envVars, disk, writes,
                   adds, clock, addCount, apiCount, log>>

(***************************************************************************)
(* The end of a snapshot write and what its caller does then.              *)
(***************************************************************************)
\* data.json after a writeFile ends.  A write that overlapped another one
\* on the same file may leave a mix of the two contents.
DiskAfter(write, torn) ==
    IF torn THEN [state |-> "torn", data |-> EmptyStore]
    ELSE [state |-> "ok", data |-> write.data]

\* a writeFile ends; the code awaiting saveData goes on
WriteDone(i, torn) ==
    /\ i \in 1..Len(writes)
    /\ torn => writes[i].overlapped
    /\ disk' = DiskAfter(writes[i], torn)
    /\ LET owner == writes[i].owner
           rest == RemoveAt(writes, i)
       IN  \/ /\ owner.kind = "api"
              \* res.status(200).json(...)
              /\ writes' = rest
              /\ UNCHANGED <<storeVars, runs, adds, log>>
           \/ /\ owner.kind = "add"
              \* res.status(201).json(newProduct)
              /\ writes' = rest
              /\ adds' = MapDelete(adds, owner.id)
              /\ UNCHANGED <<storeVars, runs, log>>
           \/ /\ owner.kind = "tick"
              /\ runs[owner.id].pc = "addPricePoint"
              /\ RunLoopBody(owner.id, runs[owner.id], "updateProduct", rest)
              /\ UNCHANGED adds
           \/ /\ owner.kind = "tick"
              /\ runs[owner.id].pc = "updateProduct"
              /\ RunLoopBody(owner.id, runs[owner.id], "createNotification", rest)
              /\ UNCHANGED adds
           \/ /\ owner.kind = "tick"
              /\ runs[owner.id].pc = "createNotification"
              /\ runs' = [runs EXCEPT ![owner.id].pc = "sleep",
                                      ![owner.id].scraped = NULL,
                                      ![owner.id].now = 0]
              /\ writes' = rest
              /\ UNCHANGED <<storeVars, adds, log>>
    /\ UNCHANGED <<envVars, isChecking, clock, addCount, apiCount>>

(***************************************************************************)
(* HTTP handlers (server/routes.ts)                                        *)
(***************************************************************************)
\* notifyOnDrop: productData.notifyOnDrop || true
StoredNotifyOnDrop(requested) == requested \/ TRUE

\* the duplicate check of POST /products lets the request through
PassesDuplicateCheck(S, url) == getProductByUrl(S, url) = {}

\* insertProductSchema.safeParse(req.body): url and notifyOnDrop as picked
\* from the table, dropPercentage a string that is transformed by parseInt
insertProductSchema(body) ==
    [success |-> body.dropPercentage.type = "string",
     data |-> [url |-> body.url, notifyOnDrop |-> body.notifyOnDrop,
               dropPercentage |-> IF body.dropPercentage.type = "string"
                                  THEN ParseInt(body.dropPercentage.text)
                                  ELSE NaN]]

\* POST /products up to the fetch: validation (400) and the duplicate check
\* (409 for a url that is in the store)
PostProducts(cfg, url, notifyOnDrop, dropPercentage) ==
    /\ log.initialized
    /\ addCount < cfg.maxAdds
    /\ LET validationResult ==
            insertProductSchema([url |-> url, notifyOnDrop |-> notifyOnDrop,
                                 dropPercentage |-> dropPercentage])
           productData == validationResult.data
       IN /\ validationResult.success
          /\ PassesDuplicateCheck(Store, productData.url)
          /\ adds' = MapSet(adds, addCount + 1,
                        [url |-> productData.url,
                         notifyOnDrop |-> productData.notifyOnDrop,
                         dropPercentage |-> productData.dropPercentage,
                         pc |-> "scrape"])
    /\ addCount' = addCount + 1
    /\ UNCHANGED <<storeVars, envVars, disk, writes, isChecking, runs, clock,
                   apiCount, log>>

\* POST /products after the fetch: 400, or createProduct and 201 after its save
PostProductsScraped(a, result) ==
    /\ a \in DOMAIN adds
    /\ adds[a].pc = "scrape"
    /\ IF ~result.ok
       THEN /\ adds' = MapDelete(adds, a)
            /\ UNCHANGED <<storeVars, writes, log>>
       ELSE LET data == [url |-> adds[a].url,
                         title |-> result.title, imageUrl |-> result.imageUrl,
                         currentPrice |-> result.currentPrice,
                         originalPrice |-> result.originalPrice,
                         notifyOnDrop |-> StoredNotifyOnDrop(adds[a].notifyOnDrop),
                         dropPercentage |-> adds[a].dropPercentage,
                         priceHistory |-> <<[date |-> clock,
                                             price |-> result.currentPrice]>>]
                S == createProduct(Store, data, clock)
            IN  /\ SetStore(S)
                /\ log' = [log EXCEPT !.productOps =
                                Append(@, [op |-> "create", id |-> NextProductId(Store),
                                           notifyOnDrop |-> adds[a].notifyOnDrop]),
                                      !.twin = createProduct(@, data, clock)]
                /\ IF isVercel
                   THEN /\ adds' = MapDelete(adds, a)
                        /\ UNCHANGED writes
                   ELSE /\ adds' = [adds EXCEPT ![a].pc = "createProduct"]
                        /\ writes' = saveData(writes, AddOwner(a), S)
    /\ UNCHANGED <<envVars, disk, isChecking, runs, clock, addCount, apiCount>>

\* a handler's single store call, and its response after the save
ApiCall(cfg, S) ==
    /\ log.initialized
    /\ apiCount < cfg.maxApiCalls
    /\ apiCount' = apiCount + 1
    /\ SetStore(S)
    /\ writes' = IF isVercel THEN writes ELSE saveData(writes, ApiOwner, S)
    /\ UNCHANGED <<envVars, disk, isChecking, runs, adds, clock, addCount>>

\* DELETE /products/:id for a product in the store (404 otherwise)
DeleteProduct(cfg, id) ==
    /\ id \in DOMAIN products
    /\ ApiCall(cfg, deleteProduct(Store, id))
    /\ log' = [log EXCEPT !.productOps = Append(@, [op |-> "delete", id |-> id]),
                          !.twin = deleteProduct(@, id)]

\* PATCH /notifications/:id/read for a notification in the store (404 otherwise)
MarkNotificationAsRead(cfg, id) ==
    /\ id \in DOMAIN notifications
    /\ ApiCall(cfg, markNotificationAsRead(Store, id))
    /\ log' = [log EXCEPT !.reads = Append(@, id),
                          !.twin = markNotificationAsRead(@, id)]

\* notificationSchema.safeParse(req.body) of POST /notifications: numbers
\* and strings of the right type, read a boolean that defaults to false
notificationSchema(body) ==
    [success |-> body.productId.type = "number",
     data |-> [productId |-> IF body.productId.type = "number"
                             THEN body.productId.value ELSE NaN,
               productName |-> body.productName, productUrl |-> body.productUrl,
               oldPrice |-> body.oldPrice, newPrice |-> body.newPrice,
               percentageDropped |-> body.percentageDropped,
               read |-> body.read]]

\* POST /notifications: validation (400), createNotification, 201
PostNotifications(cfg, body) ==
    /\ notificationSchema(body).success
    /\ ApiCall(cfg, createNotification(Store, notificationSchema(body).data, clock))
    /\ log' = [log EXCEPT !.posted = Append(@, NextNotificationId(Store)),
                          !.twin = createNotification(@, notificationSchema(body).data, clock)]

(***************************************************************************)
(* Calls of the MemStorage methods, each from its call to the settling of  *)
(* its promise, by a caller that awaits it before the next call.           *)
(***************************************************************************)
\* how the writeFile of a saveData ends; in the serverless environment
\* saveData returns before it
SaveOutcomes(vercel) == IF vercel THEN {"disabled"} ELSE {"ok", "error"}

\* a saveData without its try/catch: a failed write rejects it
SaveSettlesSurfaced(save) == IF save = "error" THEN "rejected" ELSE "resolved"

\* saveData: try { ... await writeFile ... } catch (error) { logMessage(...) }
SaveSettles(save) == "resolved"

\* the method went through its mutation and awaited saveData
Returned(S, value, save) ==
    [S |-> S, value |-> value, saved |-> TRUE,
     outcome |-> IF SaveSettles(save) = "rejected" THEN "SaveError" ELSE "returned"]

\* throw new Error(`... with ID ${id} not found`), before any mutation
NotFound(S) == [S |-> S, value |-> <<>>, saved |-> FALSE, outcome |-> "NotFound"]

createProductCall(S, data, now, save) ==
    LET S1 == createProduct(S, data, now)
    IN Returned(S1, <<S1.products[NextProductId(S)]>>, save)

updateProductCall(S, id, data, now, save) ==
    IF id \notin DOMAIN S.products THEN NotFound(S)
    ELSE LET S1 == updateProduct(S, id, data.title, data.currentPrice,
                                 data.originalPrice, data.imageUrl, now)
         IN Returned(S1, <<S1.products[id]>>, save)

deleteProductCall(S, id, save) == Returned(deleteProduct(S, id), <<>>, save)

addPricePointCall(S, id, pricePoint, now, save) ==
    IF id \notin DOMAIN S.products THEN NotFound(S)
    ELSE Returned(addPricePoint(S, id, pricePoint, now), <<>>, save)

createNotificationCall(S, n, now, save) ==
    LET S1 == createNotification(S, n, now)
    IN Returned(S1, <<S1.notifications[NextNotificationId(S)]>>, save)

markNotificationAsReadCall(S, id, save) ==
    IF id \notin DOMAIN S.notifications THEN NotFound(S)
    ELSE Returned(markNotificationAsRead(S, id), <<>>, save)

\* the call of a method, as a record
MethodCall(op, id, data) == [op |-> op, id |-> id, data |-> data]

\* the method of a call
Perform(call, S, now, save) ==
    CASE call.op = "createProduct" -> createProductCall(S, call.data, now, save)
      [] call.op = "updateProduct" -> updateProductCall(S, call.id, call.data, now, save)
      [] call.op = "deleteProduct" -> deleteProductCall(S, call.id, save)
      [] call.op = "addPricePoint" -> addPricePointCall(S, call.id, call.data, now, save)
      [] call.op = "createNotification" -> createNotificationCall(S, call.data, now, save)
      [] call.op = "markNotificationAsRead" -> markNotificationAsReadCall(S, call.id, save)

\* data.json after the saveData of a call
DiskAfterCall(file, res, save) ==
    IF res.saved /\ save = "ok" THEN [state |-> "ok", data |-> Serialize(res.S)] ELSE file

\* One call.  log.calls records it with what the caller got; log.twin is a
\* store without persistence that is given the same calls.
StoreCall(maxCalls, call, save) ==
    /\ apiCount < maxCalls
    /\ save \in SaveOutcomes(isVercel)
    /\ apiCount' = apiCount + 1
    /\ clock' = clock + 1
    /\ LET res == Perform(call, Store, clock + 1, save)
           ref == Perform(call, log.twin, clock + 1, "disabled")
       IN /\ SetStore(res.S)
          /\ disk' = DiskAfterCall(disk, res, save)
          /\ log' = [log EXCEPT
                        !.calls = Append(@, [call |-> call, save |-> save,
                                             outcome |-> res.outcome, value |-> res.value,
                                             expected |-> [outcome |-> ref.outcome,
                                                           value |-> ref.value]]),
                        !.twin = ref.S]
    /\ UNCHANGED <<envVars, writes, isChecking, runs, adds, addCount>>

(***************************************************************************)
(* The process after loadData at its start.                                *)
(***************************************************************************)
InitLogged(vercel, file, scrape) ==
    /\ products = loadData(EmptyStore, vercel, file).products
    /\ notifications = loadData(EmptyStore, vercel, file).notifications
    /\ productIdCounter = loadData(EmptyStore, vercel, file).productIdCounter
    /\ notificationIdCounter = loadData(EmptyStore, vercel, file).notificationIdCounter
    /\ isVercel = vercel
    /\ disk = file
    /\ writes = <<>>
    /\ checkInterval = FALSE
    /\ kickPending = FALSE
    /\ isChecking = FALSE
    /\ runs = EmptyMap
    /\ adds = EmptyMap
    /\ clock = 0
    /\ addCount = 0
    /\ apiCount = 0
    /\ log = [initialized |-> FALSE, skips |-> 0, ticks |-> 0,
              productOps |-> <<>>, notificationIds |-> <<>>,
              loaded |-> loadData(EmptyStore, vercel, file),
              calls |-> <<>>, reads |-> <<>>, posted |-> <<>>,
              scrape |-> scrape, errors |-> 0, stopped |-> FALSE, restarts |-> 0,
              twin |-> loadData(EmptyStore, vercel, file)]

\* no call of scrapeProduct is followed
InitWith(vercel, file) == InitLogged(vercel, file, <<>>)

\* no data.json
NoFile == [state |-> "absent", data |-> EmptyStore]

\* the actions of the coordinator and of the handlers, without snapshot writes
Handlers(cfg) ==
    \/ initialize
    \/ IntervalFires(cfg)
    \/ KickFires(cfg)
    \/ PostCheckPrices(cfg)
    \/ \E r \in DOMAIN runs : \E result \in ScrapeResults(cfg.prices, cfg.listPrices) :
            ScrapeDone(r, result)
    \/ \E r \in DOMAIN runs : SleepDone(r)
    \/ \E url \in cfg.urls : \E n \in cfg.notify : \E d \in cfg.drops :
            PostProducts(cfg, url, n, d)
    \/ \E a \in DOMAIN adds : \E result \in ScrapeResults(cfg.prices, cfg.listPrices) :
            PostProductsScraped(a, result)
    \/ \E id \in DOMAIN products : DeleteProduct(cfg, id)

(***************************************************************************)
(* Spec: the serverless deployment (saveData returns at once), from a      *)
(* start with no data.json.                                                *)
(***************************************************************************)
SpecConfig ==
    Config(MaxTriggers, MaxAdds, MaxApiCalls,
           {"amazon.in/a", "amazon.in/b"}, {5, 6}, {10}, {TRUE}, {BodyString(<<"5", "0">>)})

Init == InitWith(TRUE, NoFile)

Next == Handlers(SpecConfig)

Spec == Init /\ [][Next]_vars

(***************************************************************************)
(* SpecFs: the deployment with a file system: every mutating store call    *)
(* writes data.json and its caller waits for the write.                    *)
(***************************************************************************)
FsConfig ==
    Config(FsMaxTriggers, FsMaxAdds, FsMaxApiCalls,
           {"amazon.in/a"}, {5, 6}, {10}, {TRUE}, {BodyString(<<"5", "0">>)})

InitFs == InitWith(FALSE, NoFile)

NextFs ==
    \/ Handlers(FsConfig)
    \/ \E r \in DOMAIN runs : ScrapeHangs(r)
    \/ \E i \in 1..Len(writes) : \E torn \in BOOLEAN : WriteDone(i, torn)
    \/ \E id \in DOMAIN notifications : MarkNotificationAsRead(FsConfig, id)

SpecFs == InitFs /\ [][NextFs]_vars

(***************************************************************************)
(* SpecIds: the serverless deployment with one listing, priced 6 when it   *)
(* is added and 5 when the tracker checks it.                              *)
(***************************************************************************)
IdsConfig ==
    Config(IdsMaxTriggers, IdsMaxAdds, IdsMaxApiCalls, {"amazon.in/a"}, {5}, {10}, {TRUE}, {BodyString(<<"5", "0">>)})

InitIds == InitWith(TRUE, NoFile)

NextIds ==
    \/ initialize
    \/ IntervalFires(IdsConfig)
    \/ KickFires(IdsConfig)
    \/ \E r \in DOMAIN runs : \E result \in ScrapeResults(IdsConfig.prices, IdsConfig.listPrices) :
            ScrapeDone(r, result)
    \/ \E r \in DOMAIN runs : SleepDone(r)
    \/ \E url \in IdsConfig.urls : \E n \in IdsConfig.notify : \E d \in IdsConfig.drops :
            PostProducts(IdsConfig, url, n, d)
    \/ \E a \in DOMAIN adds : \E result \in ScrapeResults({6}, IdsConfig.listPrices) :
            PostProductsScraped(a, result)
    \/ \E id \in DOMAIN products : DeleteProduct(IdsConfig, id)

SpecIds == InitIds /\ [][NextIds]_vars

(***************************************************************************)
(* SpecTrack: a process started without data.json or on one that holds    *)
(* one product, and its coordinator.                                       *)
(***************************************************************************)
TrackConfig ==
    Config(TrackMaxTriggers, 0, 0, {}, {0, 4, 5, 6}, {NoListPrice, 10, 20}, {}, {})

\* a data.json written by an earlier run of the process: one product
TrackedFile(currentPrice, originalPrice, notifyOnDrop, dropPercentage) ==
    [state |-> "ok",
     data |-> Serialize(createProduct(EmptyStore,
                [url |-> "amazon.in/a", title |-> "title", imageUrl |-> "image",
                 currentPrice |-> currentPrice, originalPrice |-> originalPrice,
                 notifyOnDrop |-> notifyOnDrop, dropPercentage |-> dropPercentage,
                 priceHistory |-> <<[date |-> 0, price |-> currentPrice]>>], 0))]

InitTrack ==
    \/ InitWith(FALSE, NoFile)
    \/ \E c \in {5, 6} : \E o \in {0, 10} : \E n \in BOOLEAN : \E d \in {0, 50, 75} :
            InitWith(FALSE, TrackedFile(c, o, n, d))

NextTrack ==
    \/ initialize
    \/ IntervalFires(TrackConfig)
    \/ KickFires(TrackConfig)
    \/ PostCheckPrices(TrackConfig)
    \/ \E r \in DOMAIN runs :
         \E result \in ScrapeResults(TrackConfig.prices, TrackConfig.listPrices) :
            ScrapeDone(r, result)
    \/ \E r \in DOMAIN runs : SleepDone(r)
    \/ \E i \in 1..Len(writes) : \E torn \in BOOLEAN : WriteDone(i, torn)

SpecTrack == InitTrack /\ [][NextTrack]_vars

(***************************************************************************)
(* SpecHist: a process started on a data.json whose product has been       *)
(* checked until its history is nearly full or full, its coordinator, and  *)
(* POST /products.                                                         *)
(***************************************************************************)
HistConfig ==
    Config(HistMaxTriggers, HistMaxAdds, 0, {"amazon.in/b"}, {5}, {10}, {TRUE}, {BodyString(<<"5", "0">>)})

\* a data.json whose product has n price points, one per earlier check
HistoryFile(n) ==
    [TrackedFile(5, 10, TRUE, 50) EXCEPT
        !.data.products[1].priceHistory = [k \in 1..n |-> [date |-> 1 - k, price |-> 5]],
        !.data.products[1].createdAt = IsoString(0 - n)]

InitHist == \E n \in {HISTORY_LIMIT - 1, HISTORY_LIMIT} : InitWith(FALSE, HistoryFile(n))

NextHist ==
    \/ initialize
    \/ IntervalFires(HistConfig)
    \/ KickFires(HistConfig)
    \/ \E r \in DOMAIN runs :
         \E result \in ScrapeResults(HistConfig.prices, HistConfig.listPrices) :
            ScrapeDone(r, result)
    \/ \E r \in DOMAIN runs : SleepDone(r)
    \/ \E i \in 1..Len(writes) : \E torn \in BOOLEAN : WriteDone(i, torn)
    \/ \E url \in HistConfig.urls : \E n \in HistConfig.notify : \E d \in HistConfig.drops :
            PostProducts(HistConfig, url, n, d)
    \/ \E a \in DOMAIN adds :
         \E result \in ScrapeResults(HistConfig.prices, HistConfig.listPrices) :
            PostProductsScraped(a, result)

SpecHist == InitHist /\ [][NextHist]_vars

(***************************************************************************)
(* SpecRead: the serverless deployment with one listing, priced 6 when it  *)
(* is added and 5 when the tracker checks it, and the two notification     *)
(* handlers.                                                               *)
(***************************************************************************)
ReadConfig ==
    Config(ReadMaxTriggers, ReadMaxAdds, ReadMaxApiCalls, {"amazon.in/a"}, {5}, {10},
           {TRUE}, {BodyString(<<"5", "0">>)})

\* bodies of POST /notifications
ReadBodies ==
    {[productId |-> p, productName |-> "title", productUrl |-> "amazon.in/a",
      oldPrice |-> 6, newPrice |-> 5,
      percentageDropped |-> 50, read |-> r] :
        p \in {BodyNumber(1), BodyString(<<"1">>)}, r \in BOOLEAN}

InitRead == InitWith(TRUE, NoFile)

NextRead ==
    \/ initialize
    \/ IntervalFires(ReadConfig)
    \/ KickFires(ReadConfig)
    \/ \E r \in DOMAIN runs :
         \E result \in ScrapeResults(ReadConfig.prices, ReadConfig.listPrices) :
            ScrapeDone(r, result)
    \/ \E r \in DOMAIN runs : SleepDone(r)
    \/ \E url \in ReadConfig.urls : \E n \in ReadConfig.notify : \E d \in ReadConfig.drops :
            PostProducts(ReadConfig, url, n, d)
    \/ \E a \in DOMAIN adds : \E result \in ScrapeResults({6}, ReadConfig.listPrices) :
            PostProductsScraped(a, result)
    \/ \E id \in DOMAIN notifications : MarkNotificationAsRead(ReadConfig, id)
    \/ \E body \in ReadBodies : PostNotifications(ReadConfig, body)

SpecRead == InitRead /\ [][NextRead]_vars

(***************************************************************************)
(* SpecAdd: the serverless deployment, with add-product requests whose     *)
(* dropPercentage is any JSON value a client can send.                     *)
(***************************************************************************)
\* "50", "150", "-5", "abc", " 7px", "0x1f", and the number 50
AddDrops ==
    {BodyString(<<"5", "0">>), BodyString(<<"1", "5", "0">>), BodyString(<<"-", "5">>),
     BodyString(<<"a", "b", "c">>), BodyString(<<" ", "7", "p", "x">>),
     BodyString(<<"0", "x", "1", "f">>), BodyNumber(50)}

AddConfig ==
    Config(AddMaxTriggers, AddMaxAdds, AddMaxApiCalls, {"amazon.in/a"}, {5, 6}, {10},
           BOOLEAN, AddDrops)

InitAdd == InitWith(TRUE, NoFile)

NextAdd == Handlers(AddConfig)

SpecAdd == InitAdd /\ [][NextAdd]_vars

(***************************************************************************)
(* SpecScrape: calls of scrapeProduct on product URLs, short links and     *)
(* other URLs, with the answers the network can give.                      *)
(***************************************************************************)
\* amazon.in/p
ProductUrl == MarketplaceDomain \o <<"/", "p">>

\* amzn.in/x
ShortUrl == ShortDomain \o <<"/", "x">>

\* evil.io/p, evil.io/amazon.in, notamazon.in/p, amazon.in/amzn.in
OtherUrl == <<"e", "v", "i", "l", ".", "i", "o", "/", "p">>

PathUrl == <<"e", "v", "i", "l", ".", "i", "o", "/">> \o MarketplaceDomain

SuffixUrl == <<"n", "o", "t">> \o ProductUrl

SearchUrl == MarketplaceDomain \o <<"/">> \o ShortDomain

ScrapeUrls == {ProductUrl, ShortUrl, OtherUrl, PathUrl, SuffixUrl, SearchUrl}

\* the answers to the short-link request
Redirects ==
    {[kind |-> "response", location |-> l] : l \in {<<>>, ProductUrl, PathUrl, OtherUrl}}
    \cup {[kind |-> "errorResponse", location |-> l] : l \in {<<>>, ProductUrl}}
    \cup {[kind |-> "error", location |-> <<>>]}

\* the texts of n selectors: t at selector k, u at selector j, none elsewhere
Texts(n, k, t, j, u) ==
    [i \in 1..n |-> IF i = k THEN t ELSE IF i = j THEN u ELSE <<>>]

TitleTexts ==
    {Texts(TitleSelectorCount, 1, <<>>, 1, <<>>),
     Texts(TitleSelectorCount, 1, <<"T">>, 1, <<>>),
     Texts(TitleSelectorCount, 5, <<" ", "T", " ">>, 5, <<>>),
     Texts(TitleSelectorCount, 1, <<" ">>, 2, <<"T">>),
     Texts(TitleSelectorCount, 3, <<" ">>, 3, <<>>)}

\* meta title, og:title and <title>
TitleFallbacks ==
    {<< <<>>, <<>>, <<>> >>, << <<"M">>, <<>>, <<>> >>, << <<>>, <<"O">>, <<>> >>,
     << <<>>, <<>>, <<" ", "D", ":", "x">> >>, << <<>>, <<>>, <<":", "x">> >>}

PriceTexts ==
    {Texts(PriceSelectorCount, 1, <<>>, 1, <<>>),
     Texts(PriceSelectorCount, 1, <<"R", "1", ",", "2">>, 1, <<>>),
     Texts(PriceSelectorCount, 7, <<"5">>, 7, <<>>),
     Texts(PriceSelectorCount, 2, <<"N", "A">>, 4, <<"5">>),
     Texts(PriceSelectorCount, 1, <<"N", "A">>, 1, <<>>),
     Texts(PriceSelectorCount, 1, <<" ">>, 3, <<"7", ".", "0">>)}

PriceAmounts == {<<>>, <<"9", ".", "0", "\"">>, <<"x">>}

MrpTexts ==
    {Texts(MrpSelectorCount, 1, <<>>, 1, <<>>),
     Texts(MrpSelectorCount, 1, <<"R", "2", ",", "0">>, 1, <<>>),
     Texts(MrpSelectorCount, 2, <<"N", "A">>, 2, <<>>)}

ListPrices == {<<>>, <<"3", "0">>}

Page(titles, fallback, prices, priceAmount, mrps, listPrice, image) ==
    [kind |-> "page", titles |-> titles, metaTitle |-> fallback[1],
     ogTitle |-> fallback[2], docTitle |-> fallback[3], prices |-> prices,
     priceAmount |-> priceAmount, mrps |-> mrps, listPrice |-> listPrice,
     image |-> image]

\* the answers to the page request: no page (a network error, a status
\* outside 2xx), or a page
NoPage == [kind |-> "error"]

Pages ==
    {Page(t, f, p, a, m, l, i) :
        t \in TitleTexts, f \in TitleFallbacks, p \in PriceTexts, a \in PriceAmounts,
        m \in MrpTexts, l \in ListPrices, i \in {<<>>, <<"i">>}}

PlainPage ==
    Page(Texts(TitleSelectorCount, 1, <<"T">>, 1, <<>>), << <<>>, <<>>, <<>> >>,
         Texts(PriceSelectorCount, 7, <<"5">>, 7, <<>>), <<>>,
         Texts(MrpSelectorCount, 1, <<>>, 1, <<>>), <<>>, <<>>)

\* every answer to the short link with no page or a plain page, and every
\* page with one answer to the short link
Nets ==
    {[redirect |-> r, page |-> p] : r \in Redirects, p \in {NoPage, PlainPage}}
    \cup {[redirect |-> [kind |-> "response", location |-> ProductUrl], page |-> p] :
            p \in Pages}

InitScrape ==
    \E url \in ScrapeUrls : \E net \in Nets :
        InitLogged(TRUE, NoFile, <<ScrapeRequest(url, net)>>)

NextScrape == ScrapeProduct

SpecScrape == InitScrape /\ [][NextScrape]_vars

(***************************************************************************)
(* SpecLoop: the serverless deployment with two listings: ticks walk over  *)
(* the products while products are added and deleted.  A fetch of a tick   *)
(* fails, or finds the price unchanged, or finds a lower price on a page   *)
(* with a new title and image.                                             *)
(***************************************************************************)
LoopConfig ==
    Config(LoopMaxTriggers, LoopMaxAdds, LoopMaxApiCalls, {"amazon.in/a", "amazon.in/b"},
           {6}, {10}, {TRUE}, {BodyString(<<"5", "0">>)})

LoopResults == {NULL, Scraped(6, 10), Relisted(Scraped(5, 10))}

InitLoop == InitWith(TRUE, NoFile)

NextLoop ==
    \/ initialize
    \/ IntervalFires(LoopConfig)
    \/ KickFires(LoopConfig)
    \/ PostCheckPrices(LoopConfig)
    \/ \E r \in DOMAIN runs : \E result \in LoopResults : ScrapeDone(r, result)
    \/ \E r \in DOMAIN runs : SleepDone(r)
    \/ \E url \in LoopConfig.urls : \E n \in LoopConfig.notify : \E d \in LoopConfig.drops :
            PostProducts(LoopConfig, url, n, d)
    \/ \E a \in DOMAIN adds :
         \E result \in ScrapeResults(LoopConfig.prices, LoopConfig.listPrices) :
            PostProductsScraped(a, result)
    \/ \E id \in DOMAIN products : DeleteProduct(LoopConfig, id)

SpecLoop == InitLoop /\ [][NextLoop]_vars

(***************************************************************************)
(* SpecSweep: the file-system deployment started from a data.json with two *)
(* products: ticks walk over them, every store call of a tick waits for    *)
(* its snapshot write, and products are deleted in between.                *)
(***************************************************************************)
SweepConfig == Config(SweepMaxTriggers, 0, SweepMaxApiCalls, {}, {}, {}, {}, {})

\* a data.json written by an earlier run of the process: two products
SweepFile ==
    LET listed(url) == [url |-> url, title |-> "title", imageUrl |-> "image",
                        currentPrice |-> 6, originalPrice |-> 10,
                        notifyOnDrop |-> TRUE, dropPercentage |-> 50,
                        priceHistory |-> <<[date |-> 0, price |-> 6]>>]
    IN  [state |-> "ok",
         data |-> Serialize(createProduct(createProduct(EmptyStore, listed("amazon.in/a"), 0),
                                          listed("amazon.in/b"), 0))]

SweepResults == {NULL, Relisted(Scraped(5, 10))}

InitSweep == InitWith(FALSE, SweepFile)

NextSweep ==
    \/ initialize
    \/ IntervalFires(SweepConfig)
    \/ KickFires(SweepConfig)
    \/ PostCheckPrices(SweepConfig)
    \/ \E r \in DOMAIN runs : \E result \in SweepResults : ScrapeDone(r, result)
    \/ \E r \in DOMAIN runs : SleepDone(r)
    \/ \E i \in 1..Len(writes) : \E torn \in BOOLEAN : WriteDone(i, torn)
    \/ \E id \in DOMAIN products : DeleteProduct(SweepConfig, id)

SpecSweep == InitSweep /\ [][NextSweep]_vars

(***************************************************************************)
(* SpecStop: the file-system deployment with two stored products, the      *)
(* timers of initialize() as the only source of ticks, and stop().         *)
(***************************************************************************)
StopConfig == Config(StopMaxTriggers, 0, 0, {}, {}, {}, {}, {})

InitStop == InitWith(FALSE, SweepFile)

NextStop ==
    \/ initialize
    \/ stop
    \/ IntervalFires(StopConfig)
    \/ KickFires(StopConfig)
    \/ \E r \in DOMAIN runs : \E result \in SweepResults : ScrapeDone(r, result)
    \/ \E r \in DOMAIN runs : SleepDone(r)
    \/ \E i \in 1..Len(writes) : \E torn \in BOOLEAN : WriteDone(i, torn)

SpecStop == InitStop /\ [][NextStop]_vars

(***************************************************************************)
(* SpecRestart: the file-system deployment from a start with no data.json: *)
(* a listing is added, with a threshold that is a number or is not, from a *)
(* page whose list price is above or below its price; it is checked, and   *)
(* the process restarts between checks.                                    *)
(***************************************************************************)
RestartConfig ==
    Config(RestartMaxTriggers, RestartMaxAdds, 0, {"amazon.in/a"}, {5, 7}, {5}, {TRUE},
           {BodyString(<<"0">>), BodyString(<<"a", "b", "c">>)})

InitRestart == InitWith(FALSE, NoFile)

NextRestart ==
    \/ initialize
    \/ Restart(MaxRestarts)
    \/ IntervalFires(RestartConfig)
    \/ KickFires(RestartConfig)
    \/ \E r \in DOMAIN runs :
            \E result \in ScrapeResults(RestartConfig.prices, RestartConfig.listPrices) :
                ScrapeDone(r, result)
    \/ \E r \in DOMAIN runs : SleepDone(r)
    \/ \E i \in 1..Len(writes) : \E torn \in BOOLEAN : WriteDone(i, torn)
    \/ \E url \in RestartConfig.urls : \E n \in RestartConfig.notify :
            \E d \in RestartConfig.drops : PostProducts(RestartConfig, url, n, d)
    \/ \E a \in DOMAIN adds :
            \E result \in ScrapeResults(RestartConfig.prices, RestartConfig.listPrices) :
                PostProductsScraped(a, result)

SpecRestart == InitRestart /\ [][NextRestart]_vars

(***************************************************************************)
(* SpecPrice: the file-system deployment from a start with no data.json:   *)
(* a listing is added at price 6 and checked at price 5, 6 or 7, every     *)
(* store call waiting for its snapshot write.                              *)
(***************************************************************************)
PriceConfig ==
    Config(PriceMaxTriggers, PriceMaxAdds, 0, {"amazon.in/a"}, {5, 6, 7}, {10}, {TRUE},
           {BodyString(<<"5", "0">>)})

InitPrice == InitWith(FALSE, NoFile)

NextPrice ==
    \/ initialize
    \/ IntervalFires(PriceConfig)
    \/ KickFires(PriceConfig)
    \/ PostCheckPrices(PriceConfig)
    \/ \E r \in DOMAIN runs :
         \E result \in ScrapeResults(PriceConfig.prices, PriceConfig.listPrices) :
            ScrapeDone(r, result)
    \/ \E r \in DOMAIN runs : SleepDone(r)
    \/ \E i \in 1..Len(writes) : \E torn \in BOOLEAN : WriteDone(i, torn)
    \/ \E url \in PriceConfig.urls : \E n \in PriceConfig.notify : \E d \in PriceConfig.drops :
            PostProducts(PriceConfig, url, n, d)
    \/ \E a \in DOMAIN adds : PostProductsScraped(a, Scraped(6, 10))

SpecPrice == InitPrice /\ [][NextPrice]_vars

(***************************************************************************)
(* SpecStore: a MemStorage, in either environment, and callers that give   *)
(* it one call after the other.                                            *)
(***************************************************************************)
\* the product data POST /products can hand to createProduct
StoreProducts ==
    {[url |-> "amazon.in/a", title |-> "title", imageUrl |-> "image",
      currentPrice |-> 5, originalPrice |-> 10,
      notifyOnDrop |-> TRUE, dropPercentage |-> d,
      priceHistory |-> <<[date |-> 0, price |-> 5]>>] : d \in {50, NaN}}

\* the InsertNotification values of the coordinator and of POST /notifications
StoreNotifications ==
    {[productId |-> 1, productName |-> "title", productUrl |-> "amazon.in/a",
      oldPrice |-> 5, newPrice |-> 4,
      percentageDropped |-> 60, read |-> r] : r \in BOOLEAN}

StoreIds == {1, 2}

StoreCalls ==
    {MethodCall("createProduct", 0, d) : d \in StoreProducts}
    \cup {MethodCall("updateProduct", id,
                         [title |-> "title2", currentPrice |-> 4, originalPrice |-> 12,
                          imageUrl |-> "image2"]) : id \in StoreIds}
    \cup {MethodCall("deleteProduct", id, <<>>) : id \in StoreIds}
    \cup {MethodCall("addPricePoint", id, [date |-> 1, price |-> 4]) : id \in StoreIds}
    \cup {MethodCall("createNotification", 0, n) : n \in StoreNotifications}
    \cup {MethodCall("markNotificationAsRead", id, <<>>) : id \in StoreIds}

InitStore == \E vercel \in BOOLEAN : InitWith(vercel, NoFile)

NextStore ==
    \E call \in StoreCalls : \E save \in {"ok", "error", "disabled"} :
        StoreCall(StoreMaxCalls, call, save)

SpecStore == InitStore /\ [][NextStore]_vars

(***************************************************************************)
(* Single-flight execution of the tick                                     *)
(***************************************************************************)
\* executions of checkPrices that are inside the per-product loop
Checking == DOMAIN runs

\* a step that is a call of checkPrices (timer, kick or POST /check-prices)
TriggerStep == clock' = clock + 1

\* C1: under any interleaving of the periodic timer, the initial kick and
\* manual triggers, at most one execution of the per-product loop of
\* checkPrices is active at any time.
C1_AtMostOneTick == Cardinality(Checking) <= 1

\* a trigger arrived while a tick was in its loop, and that tick is still there
C1_Witness == log.skips >= 1 /\ Cardinality(Checking) = 1 /\ ~kickPending

\* C2: a trigger that arrives while a tick is in progress starts no
\* iteration and is not queued: an execution enters the loop only in the
\* step of a trigger that found no tick in progress, so of two triggers in
\* immediate succession only the first iterates.
C2_NoReentryNoQueue ==
    [][/\ (TriggerStep /\ Checking # {}) =>
            (runs' = runs /\ log'.ticks = log.ticks /\ log'.skips = log.skips + 1)
       /\ (Checking' \ Checking # {}) => (TriggerStep /\ Checking = {})]_vars

\* two triggers, the second during the first one's tick, which then ran to
\* its end: one iteration, one new price point
C2_Witness ==
    /\ clock = 2 /\ log.ticks = 1 /\ log.skips = 1
    /\ Checking = {} /\ ~isChecking
    /\ 1 \in DOMAIN products /\ Len(products[1].priceHistory) = 2

\* C3: whenever an execution of checkPrices that set the flag has finished
\* (the loop ended, or the product set was empty), isChecking is false, so
\* the next trigger starts a new tick.
C3_FlagReleased == (Checking = {}) => ~isChecking

\* a tick that ended after a failed fetch, then a tick that checked the
\* product and ended
C3_Witness ==
    /\ log.ticks = 2 /\ log.skips = 0 /\ Checking = {} /\ ~isChecking
    /\ DOMAIN products = {1}
    /\ Len(products[1].priceHistory) = 2 /\ products[1].priceHistory[1].date = 2

\* C4: if the fetch for one product never completes, later triggers still
\* start new ticks that check products.
C4_HungFetchStallsOnlyItsTick ==
    [][((\E r \in Checking : runs[r].pc = "hung") /\ TriggerStep /\ DOMAIN products # {})
        => log'.ticks = log.ticks + 1]_vars

(***************************************************************************)
(* Ids and urls                                                            *)
(***************************************************************************)
\* the ids createProduct returned, in the order of the calls
CreatedProductIds ==
    LET creates == SelectSeq(log.productOps, LAMBDA e : e.op = "create")
    IN  [i \in 1..Len(creates) |-> creates[i].id]

StrictlyIncreasing(seq) == \A i, j \in 1..Len(seq) : i < j => seq[i] < seq[j]

\* C8: createProduct returns an id strictly greater than every id it
\* returned before, also after a deletion; createNotification does the same
\* from its own counter, which product creation does not advance.
C8_IdsNeverReused ==
    /\ StrictlyIncreasing(CreatedProductIds)
    /\ StrictlyIncreasing(log.notificationIds)
    /\ Len(CreatedProductIds) = productIdCounter - 1
    /\ Len(log.notificationIds) = notificationIdCounter - 1

\* a product created after the only other product was deleted, and two
\* notifications created
C8_Witness ==
    /\ [k \in 1..Len(log.productOps) |-> <<log.productOps[k].op, log.productOps[k].id>>]
            = <<<<"create", 1>>, <<"delete", 1>>, <<"create", 2>>>>
    /\ log.notificationIds = <<1, 2>>

\* C9: no two products in the store have the same url, under any
\* interleaving of add-product requests.
C9_UniqueUrls ==
    \A i, j \in DOMAIN products : products[i].url = products[j].url => i = j

(***************************************************************************)
(* Persistence                                                             *)
(***************************************************************************)
\* C10: with durable storage available and writes succeeding, once every
\* mutating store call in flight has completed, data.json holds the
\* in-memory products, notifications and both id counters, also when the
\* calls of a running tick and of HTTP handlers overlap.
C10_DiskMatchesMemory ==
    (~isVercel /\ writes = <<>> /\ disk.state # "absent") =>
        (disk.state = "ok" /\ disk.data = Serialize(Store))

(***************************************************************************)
(* The notification decision                                               *)
(***************************************************************************)
\* the percentage below e of price p as the specification words it: the
\* nearest integer to 100*(e-p)/e, halves upwards, and 0 without a positive e
DiscountBelow(p, e) ==
    IF e <= 0 THEN 0
    ELSE CHOOSE n \in -700..100 :
            /\ 2 * n * e - e <= 200 * (e - p)
            /\ 200 * (e - p) < 2 * n * e + e

\* a notification is due for the stored product p and the scraped data s
NotificationDue(p, s) ==
    LET e == IF s.originalPrice >= p.originalPrice
             THEN s.originalPrice ELSE p.originalPrice
    IN /\ p.notifyOnDrop
       /\ s.currentPrice < p.currentPrice
       /\ DiscountBelow(p.currentPrice, e) < p.dropPercentage
       /\ p.dropPercentage <= DiscountBelow(s.currentPrice, e)

\* run r takes the threshold decision of a check in this step
Decides(r) ==
    /\ r \in DOMAIN runs
    /\ runs[r].pc = "updateProduct"
    /\ ~(r \in DOMAIN runs' /\ runs'[r].pc = "updateProduct")

\* this step creates one notification
Notifies == notificationIdCounter' = notificationIdCounter + 1

\* C5: a successful check creates a notification exactly when notifyOnDrop is
\* set, the new price is strictly below the previously stored price, and the
\* discount of the previous price is strictly below dropPercentage while the
\* discount of the new price is at least dropPercentage, both against the
\* larger of the scraped and the stored original price; and no notification
\* of the tracker is created in any other step
C5_NotifiesExactlyOnCrossing ==
    [][/\ \A r \in DOMAIN runs :
            Decides(r) =>
                (Notifies <=> NotificationDue(Current(runs[r]), runs[r].scraped))
       /\ (DOMAIN notifications' # DOMAIN notifications) =>
                \E r \in DOMAIN runs : Decides(r)]_vars

\* C5 happens: a check at the boundary (previous discount equal to the
\* threshold) created nothing, and a check that crossed the threshold created
\* a notification
C5_Witness ==
    /\ 1 \in DOMAIN products
    /\ products[1].dropPercentage = 50
    /\ Len(products[1].priceHistory) = 3
    /\ products[1].priceHistory[1].price = 4
    /\ products[1].priceHistory[2].price = 5
    /\ products[1].priceHistory[3].price = 6
    /\ products[1].originalPrice = 10
    /\ DOMAIN notifications = {1}
    /\ notifications[1].oldPrice = 6
    /\ notifications[1].newPrice = 5
    /\ \A r \in DOMAIN runs : runs[r].pc = "sleep"

(***************************************************************************)
(* One notification per crossing                                           *)
(***************************************************************************)
\* the prices of a history, newest first, fall strictly over time
FallsOverTime(h) == \A k \in 1..(Len(h) - 1) : h[k].price < h[k + 1].price

\* no check of a run is between its price point and its decision
BetweenChecks == \A r \in DOMAIN runs : runs[r].pc \in {"scrape", "sleep", "hung"}

\* the points of a history, newest first, whose discount against e reaches d
AtOrBeyond(h, e, d) == {k \in 1..Len(h) : DiscountBelow(h[k].price, e) >= d}

\* C6: a tracked product with notifyOnDrop whose checks saw a strictly
\* decreasing price and left the original price unchanged, starting below
\* the threshold, has no notification before a check reaches dropPercentage
\* and exactly one from then on, created by the first check that reached it
C6_OneNotificationPerCrossing ==
    (/\ 1 \in DOMAIN products /\ 1 \in DOMAIN log.loaded.products
     /\ BetweenChecks /\ writes = <<>>
     /\ products[1].notifyOnDrop
     /\ products[1].originalPrice = log.loaded.products[1].originalPrice
     /\ FallsOverTime(products[1].priceHistory)
     /\ DiscountBelow(log.loaded.products[1].currentPrice,
                      products[1].originalPrice) < products[1].dropPercentage)
    => LET h == products[1].priceHistory
           beyond == AtOrBeyond(h, products[1].originalPrice,
                                products[1].dropPercentage)
       IN IF beyond = {}
          THEN DOMAIN notifications = {}
          ELSE LET first == CHOOSE k \in beyond : \A j \in beyond : j <= k
               IN /\ DOMAIN notifications = {1}
                  /\ notifications[1].newPrice = h[first].price
                  /\ notifications[1].oldPrice = h[first + 1].price

\* C6 happens: 6, 5, 4 against an original price of 10 and a threshold of
\* 50: the check that saw 5 notified, the check that saw 4 did not
C6_Witness ==
    /\ BetweenChecks /\ writes = <<>>
    /\ 1 \in DOMAIN products
    /\ products[1].notifyOnDrop
    /\ products[1].dropPercentage = 50
    /\ products[1].originalPrice = 10
    /\ log.loaded.products[1].originalPrice = 10
    /\ Len(products[1].priceHistory) = 3
    /\ FallsOverTime(products[1].priceHistory)
    /\ products[1].currentPrice = 4
    /\ Cardinality(DOMAIN notifications) = 1

(***************************************************************************)
(* The bounded price history                                               *)
(***************************************************************************)
\* history h2 is history h with one point put in front and cut to 30 points
\* from the front
PutInFront(h, h2) ==
    /\ Len(h2) = (IF Len(h) < 30 THEN Len(h) + 1 ELSE 30)
    /\ \A k \in 2..Len(h2) : h2[k] = h[k - 1]
    /\ h2[1].date = clock
    /\ \A k \in 1..Len(h) : h[k].date < h2[1].date

\* C7: every product's priceHistory has at most 30 entries; a product starts
\* with one entry; and a step that changes a history puts the new point at
\* index 0, keeps the earlier points after it in their order and drops only
\* from the end
C7_HistoryBounded ==
    /\ [](\A id \in DOMAIN products : Len(products[id].priceHistory) <= 30)
    /\ [][\A id \in DOMAIN products' :
            IF id \in DOMAIN products
            THEN products'[id].priceHistory # products[id].priceHistory =>
                    PutInFront(products[id].priceHistory, products'[id].priceHistory)
            ELSE Len(products'[id].priceHistory) = 1]_vars

\* C7 happens: a full history that got a new point in front and lost its
\* oldest point, next to a product that has the one point it was created with
C7_Witness ==
    /\ DOMAIN products = {1, 2}
    /\ Len(log.loaded.products[1].priceHistory) = 30
    /\ Len(products[1].priceHistory) = 30
    /\ products[1].priceHistory[1].date > 0
    /\ products[1].priceHistory[30].date > log.loaded.products[1].priceHistory[30].date
    /\ Len(products[2].priceHistory) = 1

(***************************************************************************)
(* The snapshot round trip                                                 *)
(***************************************************************************)
\* data.json after a saveData of store S whose write succeeds
Saved(S) == [state |-> "ok", data |-> Serialize(S)]

\* C11: for every store state reached by store operations, saveData followed
\* by loadData on a fresh MemStorage gives the same products (all fields,
\* priceHistory in its order), the same notifications and the same two
\* counters.
C11_RoundTrip == loadData(EmptyStore, FALSE, Saved(Store)) = Store

(***************************************************************************)
(* Persistence failures and the in-memory semantics                        *)
(***************************************************************************)
\* C12: for every sequence of store calls, what each call returns and the
\* resulting products, notifications and counters are those of the same
\* calls on a store without persistence, whether the snapshot writes
\* succeed, fail or are disabled: a failed write is never surfaced to the
\* caller and never rolls the mutation back.
C12_PersistenceTransparent ==
    /\ Store = log.twin
    /\ \A k \in 1..Len(log.calls) :
          /\ log.calls[k].outcome = log.calls[k].expected.outcome
          /\ log.calls[k].value = log.calls[k].expected.value

\* C12 happens: a product created under a failed write, changed under a
\* successful one, and a notification created under a failed one
C12_Witness ==
    /\ Len(log.calls) = 3
    /\ log.calls[1].call.op = "createProduct" /\ log.calls[1].save = "error"
    /\ log.calls[2].call.op = "addPricePoint" /\ log.calls[2].save = "ok"
    /\ log.calls[3].call.op = "createNotification" /\ log.calls[3].save = "error"
    /\ \A k \in 1..3 : log.calls[k].outcome = "returned"
    /\ DOMAIN products = {1} /\ Len(products[1].priceHistory) = 2
    /\ DOMAIN notifications = {1}
    /\ disk.state = "ok" /\ DOMAIN disk.data.notifications = {}

(***************************************************************************)
(* Unknown ids                                                             *)
(***************************************************************************)
\* the call of this step
ThisCall == log'.calls[Len(log'.calls)]

\* this step is a call of a store method
CallStep == Len(log'.calls) = Len(log.calls) + 1

\* the id of a call is not in the collection the method looks it up in
UnknownId(call) ==
    \/ call.op \in {"updateProduct", "deleteProduct"} /\ call.id \notin DOMAIN products
    \/ call.op = "markNotificationAsRead" /\ call.id \notin DOMAIN notifications

\* C13: updateProduct, deleteProduct and markNotificationAsRead called with
\* an id that is not in the store each signal not-found and leave products,
\* notifications and both id counters unchanged.
C13_UnknownIdNotFound ==
    [][(CallStep /\ UnknownId(ThisCall.call)) =>
            (ThisCall.outcome = "NotFound" /\ Store' = Store)]_vars

(***************************************************************************)
(* Acknowledging notifications                                             *)
(***************************************************************************)
\* notification n2 is notification n with read set
SameButRead(n, n2) ==
    /\ n2.read
    /\ DOMAIN n2 = DOMAIN n
    /\ \A f \in DOMAIN n \ {"read"} : n2[f] = n[f]

\* C14: for a notification in the store, markNotificationAsRead twice
\* leaves the state of markNotificationAsRead once (read = true, every other
\* field and everything else unchanged) and the second call does not fail;
\* for an id that was never created both calls fail with not-found.
C14_MarkReadIdempotent ==
    \A id \in 1..(notificationIdCounter + 1) : \A save \in SaveOutcomes(isVercel) :
        LET once == markNotificationAsReadCall(Store, id, save)
            twice == markNotificationAsReadCall(once.S, id, save)
        IN IF id \in DOMAIN notifications
           THEN /\ once.outcome = "returned" /\ twice.outcome = "returned"
                /\ twice.S = once.S
                /\ SameButRead(notifications[id], once.S.notifications[id])
                /\ \A other \in DOMAIN notifications \ {id} :
                        once.S.notifications[other] = notifications[other]
                /\ DOMAIN once.S.notifications = DOMAIN notifications
                /\ once.S.products = products
                /\ once.S.productIdCounter = productIdCounter
                /\ once.S.notificationIdCounter = notificationIdCounter
           ELSE /\ once.outcome = "NotFound" /\ twice.outcome = "NotFound"
                /\ once.S = Store

\* C14 happens: an unread notification acknowledged twice in a row, and the
\* store after the second call is the store after the first
C14_Witness ==
    /\ Len(log.calls) = 3
    /\ log.calls[1].call.op = "createNotification" /\ ~log.calls[1].call.data.read
    /\ log.calls[2].call = MethodCall("markNotificationAsRead", 1, <<>>)
    /\ log.calls[3].call = log.calls[2].call
    /\ log.calls[2].outcome = "returned" /\ log.calls[3].outcome = "returned"
    /\ notifications[1].read

\* the ids of the notifications the coordinator created
ByCoordinator == {log.notificationIds[k] : k \in 1..Len(log.notificationIds)}

\* this step is a markNotificationAsRead of notification id: the PATCH
\* handler, or a direct call of the method that returned
MarksRead(id) ==
    \/ log'.reads = Append(log.reads, id)
    \/ /\ CallStep
       /\ ThisCall.call = MethodCall("markNotificationAsRead", id, <<>>)
       /\ ThisCall.outcome = "returned"

\* C15: every notification the coordinator creates has read = false when it
\* is created; the read field of a notification changes only in a
\* markNotificationAsRead of that notification, and once true it never
\* becomes false again (no notification is removed or replaced).
C15_ReadOnlyByAcknowledgment ==
    [][/\ \A id \in DOMAIN notifications' \ DOMAIN notifications :
            id \in ByCoordinator' => ~notifications'[id].read
       /\ \A id \in DOMAIN notifications :
            /\ id \in DOMAIN notifications'
            /\ notifications'[id].read # notifications[id].read =>
                    (~notifications[id].read /\ MarksRead(id))]_vars

\* C15 happens: a notification of the coordinator that was acknowledged,
\* next to a posted notification that was created as read
C15_Witness ==
    /\ log.notificationIds = <<1>> /\ log.reads = <<1>> /\ log.posted = <<2>>
    /\ notifications[1].read /\ notifications[2].read

(***************************************************************************)
(* Product data                                                            *)
(***************************************************************************)
\* C16: every product stored through the add-product path has a
\* dropPercentage that is an integer in the range [0,100].
C16_DropPercentageInRange ==
    \A id \in DOMAIN products : products[id].dropPercentage \in 0..100

(***************************************************************************)
(* Notifications and deleted products                                      *)
(***************************************************************************)
\* C17: at the moment the coordinator creates a notification, a product
\* with the notification's productId is in the store, also when a
\* deleteProduct for that product runs between the steps of the tick.
C17_NotificationForStoredProduct ==
    [][\A id \in ByCoordinator' \ ByCoordinator :
            /\ id \in DOMAIN notifications'
            /\ notifications'[id].productId \in DOMAIN products
            /\ notifications'[id].productId \in DOMAIN products']_vars

(***************************************************************************)
(* scrapeProduct                                                           *)
(***************************************************************************)
\* the call of scrapeProduct that is followed has ended
ScrapeEnded == log.scrape # <<>> /\ log.scrape[1].result # <<>>

ScrapeCall == log.scrape[1]

ScrapeResult == log.scrape[1].result[1]

\* the ways a call fails that the claim names, read off its inputs
ShortLinkFails(c) ==
    /\ Includes(c.url, ShortDomain)
    /\ (c.net.redirect.kind = "error" \/ c.net.redirect.location = <<>>)

WrongDomain(c) ==
    /\ ~ShortLinkFails(c)
    /\ ~Includes(IF Includes(c.url, ShortDomain) THEN c.net.redirect.location ELSE c.url,
                 MarketplaceDomain)

FetchFails(c) == c.net.page.kind = "error"

NoTitle(c) ==
    /\ c.net.page.kind = "page"
    /\ \A i \in 1..TitleSelectorCount : Trim(c.net.page.titles[i]) = <<>>
    /\ c.net.page.metaTitle = <<>>
    /\ c.net.page.ogTitle = <<>>
    /\ Trim(BeforeColon(c.net.page.docTitle)) = <<>>

HasDigit(text) == \E k \in 1..Len(text) : text[k] \in DigitsOf(10)

NoPrice(c) ==
    /\ c.net.page.kind = "page"
    /\ ~HasDigit(OrElse(FirstFound(c.net.page.prices), ScriptAmount(c.net.page.priceAmount)))

RECURSIVE Host(_)
Host(url) ==
    IF url = <<>> \/ Head(url) = "/" THEN <<>> ELSE <<Head(url)>> \o Host(Tail(url))

EndsWith(text, part) ==
    Len(text) >= Len(part) /\ SubSeq(text, Len(text) - Len(part) + 1, Len(text)) = part

BelongsTo(url, domain) ==
    Host(url) = domain \/ EndsWith(Host(url), <<".">> \o domain)

\* the URL after short-link normalization, <<>> when the short link does
\* not resolve
Normalized(c) ==
    IF BelongsTo(c.url, ShortDomain)
    THEN IF c.net.redirect.kind = "error" THEN <<>> ELSE c.net.redirect.location
    ELSE c.url

\* the requests of a call after the one of the short-link resolution
PageRequests(c, result) ==
    IF Includes(c.url, ShortDomain) THEN Tail(result.requests) ELSE result.requests

\* C19: for every URL that after short-link normalization does not belong
\* to the marketplace domain, scrapeProduct returns failure and sends no
\* request for the product page.
C19_NoFetchOutsideMarketplace ==
    (ScrapeEnded /\ ~BelongsTo(Normalized(ScrapeCall), MarketplaceDomain)) =>
        /\ ScrapeResult.value = NULL
        /\ PageRequests(ScrapeCall, ScrapeResult) = <<>>

\* the page request was sent and answered with a page
PageFetched(c, result) ==
    PageRequests(c, result) # <<>> /\ c.net.page.kind = "page"

IsSnapshot(result) ==
    /\ result.outcome = "returned"
    /\ result.value.ok
    /\ result.value.title # <<>>
    /\ result.value.currentPrice \in Nat

\* C20 as stated: for every marketplace URL whose fetched page has at least
\* one title selector and one current-price selector that match with
\* non-empty text, scrapeProduct returns a snapshot with a non-empty title
\* and a non-negative integer currentPrice.
C20_SelectorsGiveSnapshot ==
    (/\ ScrapeEnded
     /\ BelongsTo(Normalized(ScrapeCall), MarketplaceDomain)
     /\ PageFetched(ScrapeCall, ScrapeResult)
     /\ \E i \in 1..TitleSelectorCount : ScrapeCall.net.page.titles[i] # <<>>
     /\ \E j \in 1..PriceSelectorCount : ScrapeCall.net.page.prices[j] # <<>>)
        => IsSnapshot(ScrapeResult)

\* the page has a title selector with text other than whitespace, and the
\* first current-price selector with such text has a digit in it
DigitsInFirstPrice(page) ==
    /\ \E i \in 1..TitleSelectorCount : Trim(page.titles[i]) # <<>>
    /\ \E j \in 1..PriceSelectorCount :
            /\ Trim(page.prices[j]) # <<>>
            /\ \A k \in 1..(j - 1) : Trim(page.prices[k]) = <<>>
            /\ HasDigit(page.prices[j])

\* C20, amended: the same for the pages of which a title selector has text
\* that is not empty after trimming and the first current-price selector
\* with such text contains a digit.
C20_DigitsGiveSnapshot ==
    (/\ ScrapeEnded
     /\ BelongsTo(Normalized(ScrapeCall), MarketplaceDomain)
     /\ PageFetched(ScrapeCall, ScrapeResult)
     /\ DigitsInFirstPrice(ScrapeCall.net.page))
        => IsSnapshot(ScrapeResult)

\* the title is the fifth selector's " T ", the price the first one's "R1,2"
C20_Witness ==
    /\ ScrapeEnded
    /\ ScrapeCall.url = ProductUrl
    /\ ScrapeCall.net.page.kind = "page"
    /\ ScrapeCall.net.page.titles[5] = <<" ", "T", " ">>
    /\ ScrapeCall.net.page.prices[1] = <<"R", "1", ",", "2">>
    /\ IsSnapshot(ScrapeResult)
    /\ ScrapeResult.value.title = <<"T">>
    /\ ScrapeResult.value.currentPrice = 12

(***************************************************************************)
(* The loop of a tick                                                      *)
(***************************************************************************)
\* the step in which the fetch of run r's current product ends in failure:
\* the run goes straight to its next product or to its end
ExtractionFailed(r) ==
    /\ r \in DOMAIN runs
    /\ runs[r].pc = "scrape"
    /\ \/ r \notin DOMAIN runs'
       \/ runs'[r].pc = "scrape" /\ runs'[r].i = runs[r].i + 1

\* C21: when the extraction for a product fails during a tick, the stored
\* record of the product (title, prices, imageUrl, priceHistory,
\* lastChecked) is unchanged and no notification is created.
C21_FailureLeavesRecord ==
    [][\A r \in DOMAIN runs : ExtractionFailed(r) =>
            /\ products' = products
            /\ notifications' = notifications
            /\ notificationIdCounter' = notificationIdCounter]_vars

\* a finished tick over two products: the first one's fetch failed, the
\* second one's found a new title, image and price
C21_Witness ==
    /\ log.ticks = 1 /\ runs = EmptyMap
    /\ DOMAIN products = {1, 2}
    /\ products[1].lastChecked = products[1].createdAt
    /\ products[1].title = "title" /\ Len(products[1].priceHistory) = 1
    /\ products[2].lastChecked > products[2].createdAt
    /\ products[2].title = "title2" /\ products[2].imageUrl = "image2"

\* the ids of the products a run walks over
SnapshotIds(run) == [k \in 1..Len(run.products) |-> run.products[k].id]

\* C22: in each tick the Extractor is invoked exactly once for each product
\* that was in the store when the tick read the product set, one at a time
\* and in that order; a failure or a thrown error on one product does not
\* keep the later ones from being checked, and a product added while the
\* tick runs is not checked in that tick.
C22_OneFetchPerProductInOrder ==
    [][/\ \A r \in DOMAIN runs' \ DOMAIN runs :
            \* the tick reads the product set and fetches its first product
            /\ runs'[r].products = MapValues(products)
            /\ runs'[r].i = 1
            /\ runs'[r].pc = "scrape"
       /\ \A r \in DOMAIN runs \cap DOMAIN runs' :
            \* the set is not read again; a new fetch is the one of the
            \* next product, after the previous product is done with
            /\ runs'[r].products = runs[r].products
            /\ runs'[r].i \in {runs[r].i, runs[r].i + 1}
            /\ runs'[r].i = runs[r].i + 1 =>
                    runs'[r].pc = "scrape" /\ runs[r].pc \in {"scrape", "sleep"}
            /\ (runs'[r].i = runs[r].i /\ runs'[r].pc = "scrape") => runs[r].pc = "scrape"
       /\ \A r \in DOMAIN runs \ DOMAIN runs' :
            \* the tick ends after its last product only
            /\ runs[r].i = Len(runs[r].products)
            /\ runs[r].pc \in {"scrape", "sleep"}
       /\ Cardinality(DOMAIN runs') <= 1]_vars

\* a tick over products 1 and 2 that fetches product 2 after product 1 was
\* deleted under it
C22_Witness ==
    \E r \in DOMAIN runs :
        /\ SnapshotIds(runs[r]) = <<1, 2>>
        /\ runs[r].i = 2 /\ runs[r].pc = "scrape"
        /\ DOMAIN products = {2}

\* C23: within a tick the pacing delay elapses between any two consecutive
\* Extractor invocations, whatever the outcome of the first one.
C23_DelayBetweenFetches ==
    [][\A r \in DOMAIN runs \cap DOMAIN runs' :
            runs'[r].i = runs[r].i + 1 => runs[r].pc = "sleep"]_vars

\* the step in which a store call of run r throws
Threw(r) == r \in DOMAIN runs /\ log'.errors = log.errors + 1

\* C24: checkPrices never fails towards its caller: an error raised while
\* a product is processed is logged and the call goes on and completes, and
\* the updates and notifications applied earlier in the tick stay in the
\* store.
C24_ErrorsStayInTheTick ==
    /\ [](\A r \in DOMAIN runs : runs[r].pc # "thrown")
    /\ [][\A r \in DOMAIN runs : Threw(r) =>
            /\ r \in DOMAIN runs'
            /\ runs'[r].pc = "sleep"
            /\ runs'[r].i = runs[r].i
            /\ <<products, notifications, productIdCounter, notificationIdCounter>>' =
                    <<products, notifications, productIdCounter, notificationIdCounter>>]_vars

\* a finished tick over products 1 and 2: product 1 was updated, product 2
\* was deleted during its fetch and addPricePoint threw
C24_Witness ==
    /\ log.ticks = 1 /\ runs = EmptyMap /\ ~isChecking
    /\ log.errors = 1
    /\ DOMAIN products = {1}
    /\ products[1].title = "title2" /\ products[1].currentPrice = 5
    /\ DOMAIN notifications = {1}

(***************************************************************************)
(* Prices and history                                                      *)
(***************************************************************************)
\* C25: in every reachable state the currentPrice of every product is the
\* price of the first (newest) entry of its priceHistory: after creation,
\* after addPricePoint, and between and after the two store writes of a
\* successful check.
C25_CurrentPriceHeadsHistory ==
    \A id \in DOMAIN products :
        /\ products[id].priceHistory # <<>>
        /\ products[id].currentPrice = products[id].priceHistory[1].price

\* between the two writes of a check that found a new price, for a product
\* added through POST /products
C25_Witness ==
    \E r \in DOMAIN runs :
        LET id == Current(runs[r]).id
        IN  /\ runs[r].pc = "addPricePoint"
            /\ id \in DOMAIN products
            /\ \E k \in 1..Len(CreatedProductIds) : CreatedProductIds[k] = id
            /\ Len(products[id].priceHistory) = 2
            /\ products[id].currentPrice = products[id].priceHistory[1].price
            /\ products[id].priceHistory[1].price # products[id].priceHistory[2].price

(***************************************************************************)
(* notifyOnDrop                                                            *)
(***************************************************************************)
\* the ids of the products whose add-product request said notifyOnDrop = false
AddedWithoutNotify ==
    {log.productOps[k].id : k \in {j \in 1..Len(log.productOps) :
        log.productOps[j].op = "create" /\ ~log.productOps[j].notifyOnDrop}}

\* C26: a product whose add-product request specified notifyOnDrop = false
\* is stored with notifyOnDrop = false, and no tick creates a notification
\* for it.
C26_OptOutIsKept ==
    /\ \A id \in AddedWithoutNotify \cap DOMAIN products : ~products[id].notifyOnDrop
    /\ \A n \in ByCoordinator \cap DOMAIN notifications :
            notifications[n].productId \notin AddedWithoutNotify

(***************************************************************************)
(* Deleting during a tick                                                  *)
(***************************************************************************)
DeletedIds ==
    {log.productOps[k].id : k \in {j \in 1..Len(log.productOps) :
        log.productOps[j].op = "delete"}}

\* C27: a product deleted through deleteProduct is absent from the store
\* from then on, whatever the tick in flight does: the tick's addPricePoint
\* and updateProduct on the deleted id fail with not-found and do not insert
\* a record.
C27_DeletedStaysDeleted == DeletedIds \cap DOMAIN products = {}

\* a finished tick that took both products, lost the first one to a delete
\* after fetching its page, and went on to the second
C27_Witness ==
    /\ log.ticks = 1 /\ runs = EmptyMap /\ ~isChecking /\ writes = <<>>
    /\ DeletedIds = {1}
    /\ log.errors = 1
    /\ DOMAIN products = {2}
    /\ products[2].currentPrice = 5

(***************************************************************************)
(* stop()                                                                  *)
(***************************************************************************)
\* C28: after stop() has been called on an initialized tracker no
\* timer-initiated tick starts any more, neither from the periodic timer nor
\* from the initial delayed kick (under SpecStop the two timers are the only
\* callers of checkPrices, so every tick that starts is timer-initiated).
C28_NoTickAfterStop ==
    /\ [](log.stopped => ~checkInterval)
    /\ [][log.stopped => log'.ticks = log.ticks]_vars

(***************************************************************************)
(* Restarts                                                                *)
(***************************************************************************)
\* C29: a process restart between two checks, with the store reloaded from
\* the snapshot written after the first, produces exactly the same
\* notifications as a continuous run over the same requests and extraction
\* results: the notifications of the store are those of log.twin, the store
\* of the process that was never restarted.
C29_RestartKeepsNotifications == notifications = log.twin.notifications

(***************************************************************************)
(* The prices of a notification                                            *)
(***************************************************************************)
\* notification n, created in this step, is about a drop of the stored price
\* of its product from oldPrice to newPrice that reaches the threshold:
\* before the check the price was the head of the history, after it the
\* head is the new price and the old one comes second
PricedFromStore(n) ==
    LET id == n.productId
    IN  /\ n.newPrice < n.oldPrice
        /\ id \in DOMAIN products'
        /\ GreaterOrEqual(n.percentageDropped, products'[id].dropPercentage)
        /\ n.newPrice = products'[id].currentPrice
        /\ Len(products'[id].priceHistory) >= 2
        /\ n.oldPrice = products'[id].priceHistory[2].price

\* C30: every notification created by the coordinator satisfies
\* newPrice < oldPrice and percentageDropped >= the product's dropPercentage,
\* where oldPrice is the product's stored currentPrice immediately before
\* the check and newPrice is its stored currentPrice immediately after it.
C30_NotificationPricesFromStore ==
    [][\A id \in ByCoordinator' \ ByCoordinator :
            /\ id \in DOMAIN notifications'
            /\ PricedFromStore(notifications'[id])]_vars

====
